---- MODULE Spec2Model ----
(***************************************************************************)
(* Document & chunk retrieval engine of myrag: the two DocumentStore       *)
(* backends (InMemoryDocumentStore, SQLiteDocumentStore), the TextChunker, *)
(* similarity search and the knowledge tool's documentRender.              *)
(*                                                                         *)
(* Strings are sequences of one-character strings.  Every store operation  *)
(* is one action: the caller awaits each call before issuing the next.     *)
(* A failing embedding call or a failing SQL statement is an input of the  *)
(* action (fail), so the state left behind by a throwing call is a state   *)
(* of the model.                                                           *)
(***************************************************************************)
EXTENDS Integers, Sequences, FiniteSets, TLC

(* ------------------------------ bounds -------------------------------- *)

\* number of distinct document ids crypto.randomUUID() may hand out
MaxIds == 2

\* longest document content an edit may produce
MaxLen == 7

\* largest topK passed to search
MaxTopK == 2

\* number of calls in one run in which an embedding call or an SQL statement fails
MaxFailures == 1

\* largest skip passed to the search action of the knowledge tool
MaxSkip == 2

\* TextChunker window size and overlap, scaled down from the defaults 500/100
chunkSize == 3

chunkOverlap == 1

\* embedding vectors of the similarity search taken on its own: their longest
\* length, the largest absolute value of a component, the longest index
MaxDim == 2

MaxComponent == 1

MaxEntries == 2

\* chat sessions: the most messages of a ChatState, and the most statements
\* of saveSession that fail in one run
MaxMessages == 2

MaxSaveFailures == 1

\* store calls in flight at the same time
MaxCallers == 2

\* TextChunker configurations and texts of the partitioner taken on its own
MaxChunkSize == 10

MaxChunkOverlap == 10

MaxTextLen == 25

\* iterations after which a chunk(text) call that has not returned is cut off
MaxIterations == 27

(* ------------------------------ strings ------------------------------- *)

Min(a, b) == IF a < b THEN a ELSE b

Max(a, b) == IF a > b THEN a ELSE b

\* String.prototype.slice(start, end): negative offsets count from the end,
\* offsets are clamped to the length, an inverted range is empty
Slice(s, a, b) ==
  LET n == Len(s)
      from == IF a < 0 THEN Max(n + a, 0) ELSE Min(a, n)
      to == IF b < 0 THEN Max(n + b, 0) ELSE Min(b, n)
  IN IF from >= to THEN <<>> ELSE SubSeq(s, from + 1, to)

\* String.prototype.indexOf(pat, from): first offset >= from at which pat
\* occurs, -1 when there is none; the empty pattern occurs at from
RECURSIVE IndexOf(_, _, _)
IndexOf(text, pat, from) ==
  IF from + Len(pat) > Len(text) THEN -1
  ELSE IF Slice(text, from, from + Len(pat)) = pat THEN from
  ELSE IndexOf(text, pat, from + 1)

\* GetSubstitution of ECMAScript for a string pattern (no capture groups):
\* in the replacement "$$" is "$", "$&" the matched text, "$`" the text before
\* the match, "$'" the text after it; any other "$x" is kept as written
RECURSIVE GetSubstitution(_, _, _, _)
GetSubstitution(matched, text, position, replacement) ==
  IF replacement = <<>> THEN <<>>
  ELSE IF Head(replacement) = "$" /\ Len(replacement) >= 2
    THEN LET c == replacement[2]
             rest == Slice(replacement, 2, Len(replacement))
         IN IF c = "$" THEN <<"$">> \o GetSubstitution(matched, text, position, rest)
            ELSE IF c = "&" THEN matched \o GetSubstitution(matched, text, position, rest)
            ELSE IF c = "`"
              THEN Slice(text, 0, position) \o GetSubstitution(matched, text, position, rest)
            ELSE IF c = "'"
              THEN Slice(text, position + Len(matched), Len(text))
                   \o GetSubstitution(matched, text, position, rest)
            ELSE <<"$">> \o GetSubstitution(matched, text, position, Tail(replacement))
  ELSE <<Head(replacement)>> \o GetSubstitution(matched, text, position, Tail(replacement))

\* String.prototype.replace(searchValue, replaceValue) with two strings:
\* only the first occurrence is replaced, the replacement is expanded by
\* GetSubstitution
Replace(text, oldContent, newContent) ==
  LET pos == IndexOf(text, oldContent, 0)
  IN IF pos < 0 THEN text
     ELSE Slice(text, 0, pos)
          \o GetSubstitution(oldContent, text, pos, newContent)
          \o Slice(text, pos + Len(oldContent), Len(text))

(* ------------------------------ chunker ------------------------------- *)

\* the while loop of TextChunker.chunk, from cursor start
RECURSIVE ChunkLoop(_, _, _, _)
ChunkLoop(text, start, chunks, ends) ==
  IF ~(start < Len(text)) THEN [chunks |-> chunks, ends |-> ends]
  ELSE LET end == Min(start + chunkSize, Len(text))
           chunkContent == Slice(text, start, end)
       IN IF end >= Len(text)
            THEN [chunks |-> Append(chunks, chunkContent), ends |-> Append(ends, end)]
            ELSE ChunkLoop(text, end - chunkOverlap,
                           Append(chunks, chunkContent), Append(ends, end))

TextChunker_chunk(text) == ChunkLoop(text, 0, <<>>, <<>>)

\* the Chunk object addDocument builds for window i (0-based)
MakeChunk(id, parts, i) ==
  [content |-> parts.chunks[i + 1],
   documentId |-> id,
   chunkIndex |-> i,
   range |-> [start |-> IF i = 0 THEN 0 ELSE parts.ends[i], end |-> parts.ends[i + 1]]]

(* ----------------------------- embeddings ----------------------------- *)

RECURSIVE CountOf(_, _)
CountOf(c, text) ==
  IF text = <<>> THEN 0
  ELSE (IF Head(text) = c THEN 1 ELSE 0) + CountOf(c, Tail(text))

\* EmbeddingService.embedText when the provider answers: text-embedding-3-small
\* returns a non-zero vector of one fixed length, the same for the same text.
\* Two dimensions stand for the 1536 of the provider.
embedText(text) == <<1 + CountOf("a", text), 1 + CountOf("b", text)>>

\* EmbeddingService.cosineSimilarity and SQLiteDocumentStore.cosineSimilarity
\* on non-zero vectors of equal length: dot / (sqrt(normA) * sqrt(normB)).
\* The real number is kept exactly as sign, dot^2 and normA * normB.
cosineSimilarity(a, b) ==
  LET dotProduct == a[1] * b[1] + a[2] * b[2]
      normA == a[1] * a[1] + a[2] * a[2]
      normB == b[1] * b[1] + b[2] * b[2]
  IN [sign |-> IF dotProduct < 0 THEN -1 ELSE 1,
      num |-> dotProduct * dotProduct,
      den |-> normA * normB]

\* x < y for two similarities
SimLess(x, y) == x.sign * x.num * y.den < y.sign * y.num * x.den

\* the comparator written the other way round, a.similarity - b.similarity
RECURSIVE InsertDesc_ascending(_, _)
InsertDesc_ascending(sorted, x) ==
  IF sorted = <<>> THEN <<x>>
  ELSE IF SimLess(x.similarity, Head(sorted).similarity) THEN <<x>> \o sorted
  ELSE <<Head(sorted)>> \o InsertDesc_ascending(Tail(sorted), x)

\* Array.prototype.sort((a, b) => b.similarity - a.similarity): a stable sort,
\* an element goes after every earlier element that is not smaller
RECURSIVE InsertDesc(_, _)
InsertDesc(sorted, x) ==
  IF sorted = <<>> THEN <<x>>
  ELSE IF SimLess(Head(sorted).similarity, x.similarity) THEN <<x>> \o sorted
  ELSE <<Head(sorted)>> \o InsertDesc(Tail(sorted), x)

RECURSIVE SortDesc(_, _)
SortDesc(todo, sorted) ==
  IF todo = <<>> THEN sorted
  ELSE SortDesc(Tail(todo), InsertDesc(sorted, Head(todo)))

(* ------------------------------- state -------------------------------- *)

VARIABLES
  backend,       \* "memory" (InMemoryDocumentStore) or "sqlite" (SQLiteDocumentStore)
  documents,     \* InMemoryDocumentStore.documents, in insertion order
  documentRows,  \* rows of the SQLite table documents, in rowid order
  chunkRows,     \* rows of the SQLite table chunks
  chunks,        \* the embedding index this.chunks of either backend
  issued,        \* ids crypto.randomUUID() has returned so far
  deleted,       \* ids for which a deleteDocument call has returned true
  failures,      \* number of calls that met a failing embedding or SQL statement
  result,        \* what the last call returned or threw
  chunker,       \* a TextChunker and the locals of its running chunk(text) call
  mirror,        \* an InMemoryDocumentStore given the same calls as the SQLite store
  chat,          \* the database of a ChatStatePersistence and its connection
  calls,         \* the store calls in flight: where each is suspended, and its locals
  chatLoop       \* the caller's ChatState and the processChat call it awaits

vars == <<backend, documents, documentRows, chunkRows, chunks, issued, deleted, failures,
          result, chunker, mirror, chat, calls, chatLoop>>

\* the store's own TextChunker is run to completion inside addDocument
NoChunker == [pc |-> "none"]

\* no second store is driven beside the one under test
NoMirror == [on |-> FALSE]

\* no ChatStatePersistence has been constructed
NoChat == [on |-> FALSE]

\* every store call is awaited before the next is made: none is in flight
NoCalls == <<>>

\* no chat is held with the model
NoChatLoop == [pc |-> "none"]

Ids == 1 .. MaxIds

\* an id no Document ever had
UnknownId == MaxIds + 1

Null == [isNull |-> TRUE]

NoFail == [at |-> "none", i |-> 0]

\* a call with a failing step is taken only while the run has failures left
Fault(fail) ==
  /\ fail # NoFail => failures < MaxFailures
  /\ failures' = IF fail = NoFail THEN failures ELSE failures + 1

\* PRAGMA foreign_keys: SQLite enforces foreign keys (and ON DELETE CASCADE)
\* only on a connection that switched them on; the constructor never does
foreign_keys == FALSE

\* JSON.stringify / JSON.parse of the metadata column
JSONStringify(metadata) == <<"json", metadata>>

JSONParse(txt) == txt[2]

Store == [documents |-> documents, documentRows |-> documentRows,
          chunkRows |-> chunkRows, chunks |-> chunks]

\* a lookup that tests the chunk index alone and not the document id
RECURSIVE Find_anyDocument(_, _, _)
Find_anyDocument(idx, documentId, chunkIndex) ==
  IF idx = <<>> THEN Null
  ELSE IF Head(idx).chunk.chunkIndex = chunkIndex THEN Head(idx)
  ELSE Find_anyDocument(Tail(idx), documentId, chunkIndex)

\* this.chunks.find(c => c.chunk.documentId === documentId &&
\* c.chunk.chunkIndex === chunkIndex): the first such entry, or Null
RECURSIVE Find(_, _, _)
Find(idx, documentId, chunkIndex) ==
  IF idx = <<>> THEN Null
  ELSE IF Head(idx).chunk.documentId = documentId /\ Head(idx).chunk.chunkIndex = chunkIndex
    THEN Head(idx)
  ELSE Find(Tail(idx), documentId, chunkIndex)

(* --------------------------- store operations ------------------------- *)

\* getDocument: Map.get, or SELECT ... FROM documents WHERE id = ?
getDocument(be, S, id) ==
  IF be = "memory"
    THEN LET hit == SelectSeq(S.documents, LAMBDA d : d.id = id)
         IN IF hit = <<>> THEN Null ELSE hit[1]
    ELSE LET hit == SelectSeq(S.documentRows, LAMBDA r : r.id = id)
         IN IF hit = <<>> THEN Null
            ELSE [id |-> hit[1].id, content |-> hit[1].content,
                  numberOfChunks |-> hit[1].numberOfChunks,
                  metadata |-> JSONParse(hit[1].metadata)]

\* getChunkByIndex: find in this.chunks, or SELECT ... FROM chunks WHERE ...
getChunkByIndex(be, S, documentId, chunkIndex) ==
  IF be = "memory"
    THEN LET hit == Find(S.chunks, documentId, chunkIndex)
         IN IF hit = Null THEN Null ELSE hit.chunk
    ELSE LET hit == {r \in S.chunkRows :
                       r.documentId = documentId /\ r.chunkIndex = chunkIndex}
         IN IF hit = {} THEN Null
            ELSE LET row == CHOOSE r \in hit : TRUE
                 IN [content |-> row.content, documentId |-> row.documentId,
                     chunkIndex |-> row.chunkIndex,
                     range |-> [start |-> row.rangeStart, end |-> row.rangeEnd]]

\* the places where addDocument can throw: the embedding of window i, and on
\* SQLite the INSERT of the document row and the INSERT of chunk row i
AddFails(be, content) ==
  LET n == Len(TextChunker_chunk(content).chunks)
  IN {NoFail} \cup {[at |-> "embed", i |-> j] : j \in 0 .. n - 1}
     \cup (IF be = "sqlite"
             THEN {[at |-> "insertDocument", i |-> 0]}
                  \cup {[at |-> "insertChunk", i |-> j] : j \in 0 .. n - 1}
             ELSE {})

\* addDocument of either backend with the fresh id the call drew
addDocument(be, S, id, content, metadata, fail) ==
  LET parts == TextChunker_chunk(content)
      n == Len(parts.chunks)
      embedded == IF fail.at = "embed" THEN fail.i ELSE n
      pushed == [k \in 1 .. embedded |->
                   [chunk |-> MakeChunk(id, parts, k - 1),
                    embedding |-> embedText(parts.chunks[k])]]
      document == [id |-> id, content |-> content, metadata |-> metadata,
                   numberOfChunks |-> n]
      S1 == [S EXCEPT !.chunks = S.chunks \o pushed]
      row == [id |-> id, content |-> content, numberOfChunks |-> n,
              metadata |-> JSONStringify(metadata)]
      inserted == IF fail.at = "insertChunk" THEN fail.i ELSE n
      rows == {[documentId |-> id, chunkIndex |-> k,
                content |-> parts.chunks[k + 1],
                rangeStart |-> MakeChunk(id, parts, k).range.start,
                rangeEnd |-> MakeChunk(id, parts, k).range.end] : k \in 0 .. inserted - 1}
  IN IF fail.at = "embed"
       THEN [store |-> S1, threw |-> TRUE, document |-> Null]
     ELSE IF be = "memory"
       THEN [store |-> [S1 EXCEPT !.documents = Append(S.documents, document)],
             threw |-> FALSE, document |-> document]
     ELSE IF fail.at = "insertDocument"
       THEN [store |-> S1, threw |-> TRUE, document |-> Null]
     ELSE [store |-> [S1 EXCEPT !.documentRows = Append(S.documentRows, row),
                                !.chunkRows = S.chunkRows \cup rows],
           threw |-> fail.at = "insertChunk",
           document |-> IF fail.at = "insertChunk" THEN Null ELSE document]

\* the texts addDocument hands to embeddingService.embedText, in order: one call
\* per window, up to and including the call that rejects
embedTextCalls(content, fail) ==
  LET parts == TextChunker_chunk(content)
      made == IF fail.at = "embed" THEN fail.i + 1 ELSE Len(parts.chunks)
  IN SubSeq(parts.chunks, 1, made)

\* the place in embedTextCalls of the call that rejected, -1 when none did
rejectedCall(fail) == IF fail.at = "embed" THEN fail.i ELSE 0 - 1

\* deleteDocument can fail only on SQLite, in its DELETE statement
DeleteFails(be) ==
  {NoFail} \cup (IF be = "sqlite" THEN {[at |-> "delete", i |-> 0]} ELSE {})

\* deleteDocument: in memory Map.delete and, if it deleted, the filter of the
\* index; on SQLite the filter of the index first, then DELETE FROM documents
\* (an error is caught and false returned)
deleteDocument(be, S, id, fail) ==
  LET kept == SelectSeq(S.chunks, LAMBDA c : c.chunk.documentId # id)
  IN IF be = "memory"
       THEN LET found == getDocument(be, S, id) # Null
            IN [store |-> IF found
                            THEN [S EXCEPT
                                    !.documents = SelectSeq(S.documents, LAMBDA d : d.id # id),
                                    !.chunks = kept]
                            ELSE S,
                deleted |-> found]
     ELSE IF fail.at = "delete"
       THEN [store |-> [S EXCEPT !.chunks = kept], deleted |-> FALSE]
     ELSE [store |-> [S EXCEPT
                        !.chunks = kept,
                        !.documentRows = SelectSeq(S.documentRows, LAMBDA r : r.id # id),
                        !.chunkRows = IF foreign_keys
                                        THEN {r \in S.chunkRows : r.documentId # id}
                                        ELSE S.chunkRows],
           deleted |-> getDocument(be, S, id) # Null]

\* clearAllDocuments can fail on SQLite in either DELETE statement
ClearFails(be) ==
  {NoFail} \cup (IF be = "sqlite"
                   THEN {[at |-> "deleteDocuments", i |-> 0], [at |-> "deleteChunks", i |-> 0]}
                   ELSE {})

\* clearAllDocuments: on SQLite the index is emptied first, then DELETE FROM
\* documents, then DELETE FROM chunks; an error is rethrown
clearAllDocuments(be, S, fail) ==
  IF be = "memory"
    THEN [store |-> [S EXCEPT !.documents = <<>>, !.chunks = <<>>], threw |-> FALSE]
  ELSE IF fail.at = "deleteDocuments"
    THEN [store |-> [S EXCEPT !.chunks = <<>>], threw |-> TRUE]
  ELSE IF fail.at = "deleteChunks"
    THEN [store |-> [S EXCEPT !.chunks = <<>>, !.documentRows = <<>>,
                              !.chunkRows = IF foreign_keys
                                              THEN {r \in S.chunkRows :
                                                      \A d \in 1 .. Len(S.documentRows) :
                                                        S.documentRows[d].id # r.documentId}
                                              ELSE S.chunkRows],
          threw |-> TRUE]
  ELSE [store |-> [S EXCEPT !.chunks = <<>>, !.documentRows = <<>>, !.chunkRows = {}],
        threw |-> FALSE]

\* search: embed the query, score every index entry, sort by descending
\* similarity, slice(0, topK)
search(S, query, topK) ==
  LET queryEmbedding == embedText(query)
      similarities == [k \in 1 .. Len(S.chunks) |->
                         [chunk |-> S.chunks[k].chunk,
                          similarity |-> cosineSimilarity(queryEmbedding,
                                                          S.chunks[k].embedding)]]
  IN Slice(SortDesc(similarities, <<>>), 0, topK)

\* ORDER BY documentId, chunkIndex
RowBefore(r, q) ==
  \/ r.documentId < q.documentId
  \/ r.documentId = q.documentId /\ r.chunkIndex < q.chunkIndex

RECURSIVE OrderRows(_)
OrderRows(rows) ==
  IF rows = {} THEN <<>>
  ELSE LET first == CHOOSE r \in rows : \A q \in rows \ {r} : RowBefore(r, q)
       IN <<first>> \o OrderRows(rows \ {first})

\* loadStoredDocumentsToVectorStore can fail in its SELECT and in the
\* embedding of any row
LoadFails(be, S) ==
  {NoFail} \cup (IF be = "sqlite"
                   THEN {[at |-> "select", i |-> 0]}
                        \cup {[at |-> "embed", i |-> k] : k \in 0 .. Cardinality(S.chunkRows) - 1}
                   ELSE {})

\* loadStoredDocumentsToVectorStore: a no-op in memory; on SQLite the index is
\* emptied and rebuilt row by row from the chunks table
loadStoredDocumentsToVectorStore(be, S, fail) ==
  IF be = "memory" THEN [store |-> S, threw |-> FALSE]
  ELSE IF fail.at = "select" THEN [store |-> [S EXCEPT !.chunks = <<>>], threw |-> TRUE]
  ELSE LET rows == OrderRows(S.chunkRows)
           loaded == IF fail.at = "embed" THEN fail.i ELSE Len(rows)
       IN [store |-> [S EXCEPT !.chunks =
                        [k \in 1 .. loaded |->
                           [chunk |-> [content |-> rows[k].content,
                                       documentId |-> rows[k].documentId,
                                       chunkIndex |-> rows[k].chunkIndex,
                                       range |-> [start |-> rows[k].rangeStart,
                                                  end |-> rows[k].rangeEnd]],
                            embedding |-> embedText(rows[k].content)]]],
           threw |-> fail.at = "embed"]

\* the failure strings of editChunk
DocumentNotFound == "Document not found"

ChunkStartNotFound == "Chunk start not found"

ChunkEndNotFound == "Chunk end not found"

ContentIsTheSame == "Content is the same, no changes made"

ErrorEditingChunk == "Error editing chunk: "

\* the content editChunk hands to addDocument
fullContent(document, chunkStart, chunkEnd, oldContent, newContent) ==
  LET text == Slice(document.content, chunkStart.chunk.range.start, chunkEnd.chunk.range.end)
      replacedText == Replace(text, oldContent, newContent)
  IN Slice(document.content, 0, chunkStart.chunk.range.start)
     \o replacedText
     \o Slice(document.content, chunkEnd.chunk.range.end, Len(document.content))

\* editChunk of either backend; newId is the id its addDocument draws.
\* kind is "failure" (a string is returned), "document" or "threw";
\* added tells whether addDocument was called
editChunk(be, S, documentId, chunkIndexStart, chunkIndexEnd, oldContent, newContent, newId, fail) ==
  LET document == getDocument(be, S, documentId)
      chunkStart == Find(S.chunks, documentId, chunkIndexStart)
      chunkEnd == Find(S.chunks, documentId, chunkIndexEnd)
      text == Slice(document.content, chunkStart.chunk.range.start, chunkEnd.chunk.range.end)
      replacedText == Replace(text, oldContent, newContent)
      full == fullContent(document, chunkStart, chunkEnd, oldContent, newContent)
      add == addDocument(be, S, newId, full, document.metadata, fail)
      del == deleteDocument(be, add.store, documentId, fail)
  IN IF document = Null
       THEN [store |-> S, kind |-> "failure", value |-> DocumentNotFound, added |-> FALSE,
             deletedOld |-> FALSE]
     ELSE IF chunkStart = Null
       THEN [store |-> S, kind |-> "failure", value |-> ChunkStartNotFound, added |-> FALSE,
             deletedOld |-> FALSE]
     ELSE IF chunkEnd = Null
       THEN [store |-> S, kind |-> "failure", value |-> ChunkEndNotFound, added |-> FALSE,
             deletedOld |-> FALSE]
     ELSE IF replacedText = text
       THEN [store |-> S, kind |-> "failure", value |-> ContentIsTheSame, added |-> FALSE,
             deletedOld |-> FALSE]
     ELSE IF add.threw
       THEN IF be = "memory"
              THEN [store |-> add.store, kind |-> "threw", value |-> Null, added |-> TRUE,
                    deletedOld |-> FALSE]
              ELSE [store |-> add.store, kind |-> "failure", value |-> ErrorEditingChunk,
                    added |-> TRUE, deletedOld |-> FALSE]
     ELSE [store |-> del.store, kind |-> "document", value |-> add.document, added |-> TRUE,
           deletedOld |-> del.deleted]

\* where an editChunk that reaches addDocument can fail
EditFails(be, content) == AddFails(be, content) \cup DeleteFails(be)

(* ------------------------------- render ------------------------------- *)

Undefined == [isUndefined |-> TRUE]

\* document.createdAt: the Document objects of both backends carry id, content,
\* numberOfChunks and metadata, so the property read yields undefined
createdAt(document) ==
  IF "createdAt" \in DOMAIN document THEN document.createdAt ELSE Undefined

Unit(kind, documentId, indexStart, indexEnd, content) ==
  [kind |-> kind, documentId |-> documentId, indexStart |-> indexStart,
   indexEnd |-> indexEnd, content |-> content]

\* new Set(chunks.map(c => c.documentId)): the ids in order of first occurrence
RECURSIVE docIdsOf(_, _)
docIdsOf(requests, seen) ==
  IF requests = <<>> THEN seen
  ELSE docIdsOf(Tail(requests),
                IF \E k \in 1 .. Len(seen) : seen[k] = Head(requests).documentId
                  THEN seen ELSE Append(seen, Head(requests).documentId))

\* sort((a, b) => a.start - b.start): stable, ascending by start
RECURSIVE InsertByStart(_, _)
InsertByStart(sorted, x) ==
  IF sorted = <<>> THEN <<x>>
  ELSE IF x.start < Head(sorted).start THEN <<x>> \o sorted
  ELSE <<Head(sorted)>> \o InsertByStart(Tail(sorted), x)

RECURSIVE SortByStart(_, _)
SortByStart(todo, sorted) ==
  IF todo = <<>> THEN sorted
  ELSE SortByStart(Tail(todo), InsertByStart(sorted, Head(todo)))

\* the loop that builds mergedChunks from the sorted requests of one document
RECURSIVE mergeChunks(_, _, _)
mergeChunks(sorted, numberOfChunks, mergedChunks) ==
  IF sorted = <<>> THEN mergedChunks
  ELSE LET chunk == Head(sorted)
           end == Min(chunk.end, numberOfChunks - 1)
           m == Len(mergedChunks)
       IN IF m = 0 \/ mergedChunks[m].end + 1 < chunk.start
            THEN mergeChunks(Tail(sorted), numberOfChunks,
                             Append(mergedChunks, [start |-> chunk.start, end |-> end]))
            ELSE mergeChunks(Tail(sorted), numberOfChunks,
                             [mergedChunks EXCEPT ![m].end = Max(mergedChunks[m].end, end)])

\* the loop over mergedChunks: an omitted unit for the gap before the interval,
\* then the shown unit; throws when a boundary chunk is not found
RECURSIVE emitChunks(_, _, _, _, _, _)
emitChunks(be, S, document, mergedChunks, lastChunkIndex, parts) ==
  IF mergedChunks = <<>> THEN [threw |-> FALSE, parts |-> parts]
  ELSE LET start == Head(mergedChunks).start
           end == Head(mergedChunks).end
           gap == IF start > lastChunkIndex
                    THEN <<Unit("omitted", document.id, lastChunkIndex, start - 1, <<>>)>>
                    ELSE <<>>
           startChunk == getChunkByIndex(be, S, document.id, start)
           endChunk == getChunkByIndex(be, S, document.id, end)
       IN IF startChunk = Null \/ endChunk = Null
            THEN [threw |-> TRUE, parts |-> <<>>]
            ELSE emitChunks(be, S, document, Tail(mergedChunks), end + 1,
                            parts \o gap
                            \o <<Unit("shown", document.id, start, end,
                                      Slice(document.content, startChunk.range.start,
                                            endChunk.range.end))>>)

\* the body of the loop over docIds for one document id
renderDocument(be, S, docId, requests) ==
  LET document == getDocument(be, S, docId)
      mine == SelectSeq(requests, LAMBDA c : c.documentId = docId)
      mergedChunks == mergeChunks(SortByStart(mine, <<>>), document.numberOfChunks, <<>>)
      emitted == emitChunks(be, S, document, mergedChunks, 0, <<>>)
      lastEnd == mergedChunks[Len(mergedChunks)].end
      trailing == IF lastEnd < document.numberOfChunks - 1
                    THEN <<Unit("omitted", docId, lastEnd + 1,
                                document.numberOfChunks - 1, <<>>)>>
                    ELSE <<>>
  IN IF document = Null
       THEN [threw |-> FALSE, parts |-> <<Unit("notFound", docId, 0, 0, <<>>)>>]
     ELSE IF createdAt(document) = Undefined
       THEN [threw |-> TRUE, parts |-> <<>>]
     ELSE IF emitted.threw
       THEN [threw |-> TRUE, parts |-> <<>>]
     ELSE [threw |-> FALSE, parts |-> emitted.parts \o trailing]

RECURSIVE renderLoop(_, _, _, _, _)
renderLoop(be, S, docIds, requests, parts) ==
  IF docIds = <<>> THEN [threw |-> FALSE, parts |-> parts]
  ELSE LET one == renderDocument(be, S, Head(docIds), requests)
       IN IF one.threw THEN [threw |-> TRUE, parts |-> <<>>]
          ELSE renderLoop(be, S, Tail(docIds), requests, parts \o one.parts)

\* documentRender: the units of the returned text, or the error thrown
documentRender(be, S, requests) ==
  renderLoop(be, S, docIdsOf(requests, <<>>), requests, <<>>)

(* --------------------- search action of the tool ---------------------- *)

\* the "+ skip" left out of the call of docStore.search
paginatedResults_topKOnly(S, query, topK, skip) ==
  LET results == search(S, query, topK)
  IN Slice(results, skip, Len(results))

\* case 'search' of the executor: results = docStore.search(query, topK + skip),
\* paginatedResults = results.slice(skip)
paginatedResults(S, query, topK, skip) ==
  LET results == search(S, query, topK + skip)
  IN Slice(results, skip, Len(results))

\* paginatedResults.map(item => ({documentId, start: chunkIndex, end: chunkIndex}))
requestsOf(results) ==
  [k \in 1 .. Len(results) |->
     [documentId |-> results[k].chunk.documentId,
      start |-> results[k].chunk.chunkIndex,
      end |-> results[k].chunk.chunkIndex]]

(* ------------------------------- inputs ------------------------------- *)

\* contents handed to addDocument: the empty text, one window, three windows
Contents == {<<>>, <<"a", "$", "$">>, <<"a", "b", "a", "a", "b", "a">>}

\* metadata the callers pass: { source: ... }; "{}" is the default of addDocument
Metadatas == {"{source}"}

Queries == {<<"a">>, <<"b">>}

TopKs == -1 .. MaxTopK

Skips == 0 .. MaxSkip

ChunkIndexes == 0 .. 2

OldContents == {<<"a">>, <<"b", "a">>, <<"$", "$">>}

NewContents == {<<"b">>, <<"a">>, <<"$", "$">>, <<"$", "&">>}

\* index ranges the getChunk action is asked for
RenderRanges == {<<0, 0>>, <<1, 1>>, <<2, 2>>, <<0, 2>>, <<0 - 1, 1>>, <<2, 5>>}

Requests(ids) ==
  {[documentId |-> id, start |-> r[1], end |-> r[2]] : id \in ids, r \in RenderRanges}

(* ------------------------------- actions ------------------------------ *)

\* no call is pending: the caller has taken the last result
Idle == [op |-> "idle"]

Install(S) ==
  /\ documents' = S.documents
  /\ documentRows' = S.documentRows
  /\ chunkRows' = S.chunkRows
  /\ chunks' = S.chunks

Init ==
  /\ backend \in {"memory", "sqlite"}
  /\ documents = <<>>
  /\ documentRows = <<>>
  /\ chunkRows = {}
  /\ chunks = <<>>
  /\ issued = {}
  /\ deleted = {}
  /\ failures = 0
  /\ result = Idle
  /\ chunker = NoChunker
  /\ mirror = NoMirror
  /\ chat = NoChat
  /\ calls = NoCalls
  /\ chatLoop = NoChatLoop

AddDocument ==
  /\ result = Idle
  /\ \E id \in Ids \ issued, content \in Contents, metadata \in Metadatas :
    \E fail \in AddFails(backend, content) :
      LET r == addDocument(backend, Store, id, content, metadata, fail)
      IN /\ Fault(fail)
         /\ Install(r.store)
         /\ issued' = issued \cup {id}
         /\ result' = [op |-> "addDocument", content |-> content, metadata |-> metadata,
                       id |-> id, threw |-> r.threw, value |-> r.document,
                       embedTextCalls |-> embedTextCalls(content, fail),
                       rejectedCall |-> rejectedCall(fail)]
         /\ UNCHANGED <<chatLoop, calls, chunker, mirror, chat, backend, deleted>>

DeleteDocument ==
  /\ result = Idle
  /\ \E id \in issued \cup {UnknownId} :
    \E fail \in DeleteFails(backend) :
      LET r == deleteDocument(backend, Store, id, fail)
      IN /\ Fault(fail)
         /\ Install(r.store)
         /\ deleted' = IF r.deleted THEN deleted \cup {id} ELSE deleted
         /\ result' = [op |-> "deleteDocument", id |-> id, value |-> r.deleted]
         /\ UNCHANGED <<chatLoop, calls, chunker, mirror, chat, backend, issued>>

ClearAllDocuments ==
  /\ result = Idle
  /\ \E fail \in ClearFails(backend) :
    LET r == clearAllDocuments(backend, Store, fail)
    IN /\ Fault(fail)
       /\ Install(r.store)
       /\ result' = [op |-> "clearAllDocuments", threw |-> r.threw]
       /\ UNCHANGED <<chatLoop, calls, chunker, mirror, chat, backend, issued, deleted>>

Search ==
  /\ result = Idle
  /\ \E query \in Queries, topK \in TopKs, failed \in BOOLEAN :
    /\ Fault(IF failed THEN [at |-> "embed", i |-> 0] ELSE NoFail)
    /\ result' = [op |-> "search", query |-> query, topK |-> topK, threw |-> failed,
                  value |-> IF failed THEN <<>> ELSE search(Store, query, topK),
                  embedTextCalls |-> <<query>>,
                  rejectedCall |-> IF failed THEN 0 ELSE 0 - 1]
    /\ UNCHANGED <<chatLoop, calls, chunker, mirror, chat, backend, documents, documentRows, chunkRows, chunks, issued,
                   deleted>>

EditChunk ==
  /\ result = Idle
  /\ \E documentId \in issued \cup {UnknownId}, chunkIndexStart \in ChunkIndexes,
     chunkIndexEnd \in ChunkIndexes, oldContent \in OldContents, newContent \in NewContents :
    \E newId \in IF Ids \ issued = {} THEN {UnknownId} ELSE Ids \ issued :
      \E try \in {editChunk(backend, Store, documentId, chunkIndexStart, chunkIndexEnd,
                            oldContent, newContent, newId, NoFail)} :
         \E fail \in IF try.added THEN EditFails(backend, try.value.content) ELSE {NoFail} :
           \E r \in {editChunk(backend, Store, documentId, chunkIndexStart, chunkIndexEnd,
                               oldContent, newContent, newId, fail)} :
              /\ r.added => newId # UnknownId /\ Len(try.value.content) <= MaxLen
              /\ Fault(fail)
              /\ Install(r.store)
              /\ issued' = IF r.added THEN issued \cup {newId} ELSE issued
              /\ deleted' = IF r.deletedOld THEN deleted \cup {documentId} ELSE deleted
              /\ result' = [op |-> "editChunk", documentId |-> documentId,
                            chunkIndexStart |-> chunkIndexStart,
                            chunkIndexEnd |-> chunkIndexEnd,
                            oldContent |-> oldContent, newContent |-> newContent,
                            kind |-> r.kind, value |-> r.value,
                            embedTextCalls |-> IF r.added
                                                 THEN embedTextCalls(try.value.content, fail)
                                                 ELSE <<>>,
                            rejectedCall |-> IF r.added THEN rejectedCall(fail) ELSE 0 - 1]
              /\ UNCHANGED <<chatLoop, calls, chunker, mirror, chat, backend>>

LoadStoredDocumentsToVectorStore ==
  /\ result = Idle
  /\ \E fail \in LoadFails(backend, Store) :
    LET r == loadStoredDocumentsToVectorStore(backend, Store, fail)
    IN /\ Fault(fail)
       /\ Install(r.store)
       /\ result' = [op |-> "loadStoredDocumentsToVectorStore", threw |-> r.threw]
       /\ UNCHANGED <<chatLoop, calls, chunker, mirror, chat, backend, issued, deleted>>

\* the process ends and a new store object is constructed: this.chunks (and in
\* memory this.documents) start empty, the SQLite tables are as they were
Restart ==
  /\ result = Idle
  /\ documents' = <<>>
  /\ chunks' = <<>>
  /\ result' = [op |-> "restart"]
  /\ UNCHANGED <<chatLoop, calls, chunker, mirror, chat, backend, documentRows, chunkRows, issued, deleted, failures>>

\* the search action of the knowledge tool: one call of docStore.search, which
\* embeds the query (embedTextCalls lists the texts handed to embedText), the
\* slice, and the rendering of what the slice kept
SearchAction ==
  /\ result = Idle
  /\ \E query \in Queries, topK \in TopKs, skip \in Skips, failed \in BOOLEAN :
    LET selected == IF failed THEN <<>> ELSE paginatedResults(Store, query, topK, skip)
        rendered == documentRender(backend, Store, requestsOf(selected))
    IN /\ Fault(IF failed THEN [at |-> "embed", i |-> 0] ELSE NoFail)
       /\ result' = [op |-> "searchAction", query |-> query, topK |-> topK, skip |-> skip,
                     embedTextCalls |-> <<query>>, searchThrew |-> failed,
                     selected |-> selected,
                     threw |-> failed \/ rendered.threw,
                     parts |-> IF failed THEN <<>> ELSE rendered.parts]
  /\ UNCHANGED <<chatLoop, calls, chunker, mirror, chat, backend, documents, documentRows, chunkRows, chunks, issued,
                 deleted>>

\* the getChunk action of the knowledge tool (one request) and the rendering
\* of a search result (several requests)
Render ==
  /\ result = Idle
  /\ \E requests \in {<<r>> : r \in Requests(issued \cup {UnknownId})}
                     \cup {<<r, q>> : r \in Requests(issued \cup {UnknownId}),
                                      q \in Requests(issued \cup {UnknownId})} :
       LET r == documentRender(backend, Store, requests)
       IN result' = [op |-> "render", requests |-> requests, threw |-> r.threw,
                     parts |-> r.parts]
  /\ UNCHANGED <<chatLoop, calls, chunker, mirror, chat, backend, documents, documentRows, chunkRows, chunks, issued,
                 deleted, failures>>

\* the awaiting caller takes the result of the call; the next call follows
Return ==
  /\ result # Idle
  /\ result' = Idle
  /\ UNCHANGED <<chatLoop, calls, chunker, mirror, chat, backend, documents, documentRows, chunkRows, chunks, issued,
                 deleted, failures>>

Next ==
  \/ AddDocument
  \/ DeleteDocument
  \/ ClearAllDocuments
  \/ Search
  \/ SearchAction
  \/ EditChunk
  \/ LoadStoredDocumentsToVectorStore
  \/ Restart
  \/ Render
  \/ Return

Spec == Init /\ [][Next]_vars

(* ------------------- the partitioner taken on its own ------------------ *)

\* a text of n characters, each one telling its offset
Text(n) == [k \in 1 .. n |-> k - 1]

ChunkSizes == 1 .. MaxChunkSize

ChunkOverlaps == 0 .. MaxChunkOverlap

\* the cursor moved to the boundary, the overlap forgotten
nextStart_atBoundary(end, overlap) == end

\* the overlap taken off twice
nextStart_overlapTwice(end, overlap) == end - 2 * overlap

\* start = end - this.chunkOverlap
nextStart(end, overlap) == end - overlap

\* new TextChunker(chunkSize, chunkOverlap) and the entry of chunk(text):
\* chunks = [], ends = [], start = 0
ChunkerInit ==
  /\ backend = "memory"
  /\ documents = <<>>
  /\ documentRows = <<>>
  /\ chunkRows = {}
  /\ chunks = <<>>
  /\ issued = {}
  /\ deleted = {}
  /\ failures = 0
  /\ result = Idle
  /\ mirror = NoMirror
  /\ chat = NoChat
  /\ calls = NoCalls
  /\ chatLoop = NoChatLoop
  /\ \E size \in ChunkSizes, overlap \in ChunkOverlaps, n \in 0 .. MaxTextLen :
       chunker = [pc |-> "loop", chunkSize |-> size, chunkOverlap |-> overlap,
                  text |-> Text(n), start |-> 0, chunks |-> <<>>, ends |-> <<>>]

\* one evaluation of the loop condition of chunk(text) and, when it holds, one
\* run of the loop body
ChunkStep ==
  /\ chunker.pc = "loop"
  /\ Len(chunker.ends) < MaxIterations
  /\ LET text == chunker.text
         start == chunker.start
         end == Min(start + chunker.chunkSize, Len(text))
         chunkContent == Slice(text, start, end)
     IN chunker' =
          IF ~(start < Len(text)) THEN [chunker EXCEPT !.pc = "done"]
          ELSE IF end >= Len(text)
            THEN [chunker EXCEPT !.pc = "done",
                                 !.chunks = Append(chunker.chunks, chunkContent),
                                 !.ends = Append(chunker.ends, end)]
          ELSE [chunker EXCEPT !.start = nextStart(end, chunker.chunkOverlap),
                               !.chunks = Append(chunker.chunks, chunkContent),
                               !.ends = Append(chunker.ends, end)]
  /\ UNCHANGED <<chatLoop, calls, backend, documents, documentRows, chunkRows, chunks, issued, deleted,
                 failures, result, mirror, chat>>

ChunkerNext == ChunkStep

ChunkerSpec == ChunkerInit /\ [][ChunkerNext]_vars

(* ------------------- the two backends side by side --------------------- *)

\* the orders of n elements
Orders(n) == {f \in [1 .. n -> 1 .. n] : \A i, j \in 1 .. n : i # j => f[i] # f[j]}

\* the store object of the InMemoryDocumentStore that runs beside the SQLite one
MirrorStore ==
  [documents |-> mirror.documents, documentRows |-> <<>>, chunkRows |-> {},
   chunks |-> mirror.chunks]

\* the Document objects of the document rows, in rowid order
documentsOfRows(rows) ==
  [k \in 1 .. Len(rows) |->
     [id |-> rows[k].id, content |-> rows[k].content,
      numberOfChunks |-> rows[k].numberOfChunks, metadata |-> JSONParse(rows[k].metadata)]]

\* getAllDocuments: in memory Array.from(this.documents.values()), the
\* insertion order; on SQLite SELECT ... ORDER BY createdAt DESC, where
\* createdAt is CURRENT_TIMESTAMP of the insert, in whole seconds: the later
\* second first, rows of one second in any order, so every order of the rows
\* is the answer for some timing of the inserts
getAllDocuments(be, S) ==
  IF be = "memory" THEN {S.documents}
  ELSE LET all == documentsOfRows(S.documentRows)
       IN {[k \in 1 .. Len(all) |-> all[f[k]]] : f \in Orders(Len(all))}

\* the topK a caller may leave out
Omitted == [given |-> FALSE, value |-> 0]

Given(topK) == [given |-> TRUE, value |-> topK]

\* topK: number = 5 of SQLiteDocumentStore.search
DefaultTopK == 5

\* search(query, topK?) as the interface declares it: in memory a missing
\* topK is undefined and slice(0, undefined) keeps every result, on SQLite it
\* is the default 5
searchOptional(be, S, query, topK) ==
  IF topK.given THEN search(S, query, topK.value)
  ELSE IF be = "memory" THEN search(S, query, Len(S.chunks))
  ELSE search(S, query, DefaultTopK)

\* an empty store of each backend, to be given the same calls
LockstepInit ==
  /\ backend = "sqlite"
  /\ documents = <<>>
  /\ documentRows = <<>>
  /\ chunkRows = {}
  /\ chunks = <<>>
  /\ issued = {}
  /\ deleted = {}
  /\ failures = 0
  /\ result = Idle
  /\ chunker = NoChunker
  /\ mirror = [on |-> TRUE, documents |-> <<>>, chunks |-> <<>>]
  /\ chat = NoChat
  /\ calls = NoCalls
  /\ chatLoop = NoChatLoop

InstallMirror(S) == mirror' = [on |-> TRUE, documents |-> S.documents, chunks |-> S.chunks]

\* what the two stores answered to the same call
Both(call, args, memory, sqlite) ==
  [op |-> "both", call |-> call, args |-> args, memory |-> memory, sqlite |-> sqlite]

BothAddDocument ==
  /\ result = Idle
  /\ \E id \in Ids \ issued, content \in Contents, metadata \in Metadatas :
       LET m == addDocument("memory", MirrorStore, id, content, metadata, NoFail)
           q == addDocument("sqlite", Store, id, content, metadata, NoFail)
       IN /\ InstallMirror(m.store)
          /\ Install(q.store)
          /\ issued' = issued \cup {id}
          /\ result' = Both("addDocument", <<content, metadata>>, m.document, q.document)
  /\ UNCHANGED <<chatLoop, calls, chunker, chat, backend, deleted, failures>>

BothGetDocument ==
  /\ result = Idle
  /\ \E id \in issued \cup {UnknownId} :
       result' = Both("getDocument", <<id>>, getDocument("memory", MirrorStore, id),
                      getDocument("sqlite", Store, id))
  /\ UNCHANGED <<chatLoop, calls, chunker, mirror, chat, backend, documents, documentRows, chunkRows, chunks,
                 issued, deleted, failures>>

BothGetAllDocuments ==
  /\ result = Idle
  /\ \E m \in getAllDocuments("memory", MirrorStore), q \in getAllDocuments("sqlite", Store) :
       result' = Both("getAllDocuments", <<>>, m, q)
  /\ UNCHANGED <<chatLoop, calls, chunker, mirror, chat, backend, documents, documentRows, chunkRows, chunks,
                 issued, deleted, failures>>

BothDeleteDocument ==
  /\ result = Idle
  /\ \E id \in issued \cup {UnknownId} :
       LET m == deleteDocument("memory", MirrorStore, id, NoFail)
           q == deleteDocument("sqlite", Store, id, NoFail)
       IN /\ InstallMirror(m.store)
          /\ Install(q.store)
          /\ deleted' = IF q.deleted THEN deleted \cup {id} ELSE deleted
          /\ result' = Both("deleteDocument", <<id>>, m.deleted, q.deleted)
  /\ UNCHANGED <<chatLoop, calls, chunker, chat, backend, issued, failures>>

BothClearAllDocuments ==
  /\ result = Idle
  /\ LET m == clearAllDocuments("memory", MirrorStore, NoFail)
         q == clearAllDocuments("sqlite", Store, NoFail)
     IN /\ InstallMirror(m.store)
        /\ Install(q.store)
        /\ result' = Both("clearAllDocuments", <<>>, m.threw, q.threw)
  /\ UNCHANGED <<chatLoop, calls, chunker, chat, backend, issued, deleted, failures>>

BothGetChunkByIndex ==
  /\ result = Idle
  /\ \E id \in issued \cup {UnknownId}, chunkIndex \in ChunkIndexes :
       result' = Both("getChunkByIndex", <<id, chunkIndex>>,
                      getChunkByIndex("memory", MirrorStore, id, chunkIndex),
                      getChunkByIndex("sqlite", Store, id, chunkIndex))
  /\ UNCHANGED <<chatLoop, calls, chunker, mirror, chat, backend, documents, documentRows, chunkRows, chunks,
                 issued, deleted, failures>>

BothSearch ==
  /\ result = Idle
  /\ \E query \in Queries, topK \in {Omitted} \cup {Given(k) : k \in 0 .. MaxTopK} :
       result' = Both("search", <<query, topK>>,
                      searchOptional("memory", MirrorStore, query, topK),
                      searchOptional("sqlite", Store, query, topK))
  /\ UNCHANGED <<chatLoop, calls, chunker, mirror, chat, backend, documents, documentRows, chunkRows, chunks,
                 issued, deleted, failures>>

BothEditChunk ==
  /\ result = Idle
  /\ \E documentId \in issued \cup {UnknownId}, chunkIndexStart \in ChunkIndexes,
        chunkIndexEnd \in ChunkIndexes, oldContent \in OldContents, newContent \in NewContents :
       \E newId \in IF Ids \ issued = {} THEN {UnknownId} ELSE Ids \ issued :
         LET m == editChunk("memory", MirrorStore, documentId, chunkIndexStart, chunkIndexEnd,
                            oldContent, newContent, newId, NoFail)
             q == editChunk("sqlite", Store, documentId, chunkIndexStart, chunkIndexEnd,
                            oldContent, newContent, newId, NoFail)
         IN /\ m.added => newId # UnknownId /\ Len(m.value.content) <= MaxLen
            /\ q.added => newId # UnknownId /\ Len(q.value.content) <= MaxLen
            /\ InstallMirror(m.store)
            /\ Install(q.store)
            /\ issued' = IF m.added \/ q.added THEN issued \cup {newId} ELSE issued
            /\ deleted' = IF q.deletedOld THEN deleted \cup {documentId} ELSE deleted
            /\ result' = Both("editChunk",
                              <<documentId, chunkIndexStart, chunkIndexEnd, oldContent,
                                newContent>>,
                              [kind |-> m.kind, value |-> m.value],
                              [kind |-> q.kind, value |-> q.value])
  /\ UNCHANGED <<chatLoop, calls, chunker, chat, backend, failures>>

LockstepNext ==
  \/ BothAddDocument
  \/ BothGetDocument
  \/ BothGetAllDocuments
  \/ BothDeleteDocument
  \/ BothClearAllDocuments
  \/ BothGetChunkByIndex
  \/ BothSearch
  \/ BothEditChunk
  \/ Return

LockstepSpec == LockstepInit /\ [][LockstepNext]_vars

(* ----------------- the similarity search taken on its own --------------- *)

\* what the provider or the embedding cache may hand back as an embedding: the
\* number arrays of length 1 .. MaxDim, the zero vectors among them
Vectors ==
  UNION {[1 .. n -> (0 - MaxComponent) .. MaxComponent] : n \in 1 .. MaxDim}

\* sum of a[i] * b[i] for i < n
RECURSIVE Dot(_, _, _)
Dot(a, b, n) == IF n = 0 THEN 0 ELSE Dot(a, b, n - 1) + a[n] * b[n]

\* a similarity: sign * sqrt(num / den); den = 0 is NaN (0 / 0, or a sum with
\* an undefined term)
NaN == [sign |-> 1, num |-> 0, den |-> 0]

Zero == [sign |-> 1, num |-> 0, den |-> 1]

IsNaN(x) == x.den = 0

\* EmbeddingService.cosineSimilarity(a, b): throws on unequal lengths, 0 when
\* a norm is 0
EmbeddingService_cosineSimilarity(a, b) ==
  LET dotProduct == Dot(a, b, Len(a))
      normA == Dot(a, a, Len(a))
      normB == Dot(b, b, Len(b))
  IN IF Len(a) # Len(b) THEN [threw |-> TRUE, value |-> NaN]
     ELSE IF normA = 0 \/ normB = 0 THEN [threw |-> FALSE, value |-> Zero]
     ELSE [threw |-> FALSE,
           value |-> [sign |-> IF dotProduct < 0 THEN 0 - 1 ELSE 1,
                      num |-> dotProduct * dotProduct,
                      den |-> normA * normB]]

\* SQLiteDocumentStore.cosineSimilarity(a, b): the dot product runs over the
\* indices of a (b[i] is undefined beyond the end of b, and the sum NaN), the
\* magnitudes over each vector; no check of lengths, no check of zero
SQLiteDocumentStore_cosineSimilarity(a, b) ==
  LET magnitudeA == Dot(a, a, Len(a))
      magnitudeB == Dot(b, b, Len(b))
      dotProduct == Dot(a, b, Len(a))
  IN IF Len(a) > Len(b) THEN [threw |-> FALSE, value |-> NaN]
     ELSE IF magnitudeA * magnitudeB = 0 THEN [threw |-> FALSE, value |-> NaN]
     ELSE [threw |-> FALSE,
           value |-> [sign |-> IF dotProduct < 0 THEN 0 - 1 ELSE 1,
                      num |-> dotProduct * dotProduct,
                      den |-> magnitudeA * magnitudeB]]

\* the outcomes of sort((a, b) => b.similarity - a.similarity): the stable
\* descending order; with a NaN similarity the comparator is not consistent
\* and the order is left to the implementation
sortedBySimilarity(similarities) ==
  IF \E k \in 1 .. Len(similarities) : IsNaN(similarities[k].similarity)
    THEN {[k \in 1 .. Len(similarities) |-> similarities[f[k]]] :
            f \in Orders(Len(similarities))}
    ELSE {SortDesc(similarities, <<>>)}

\* search of either backend once embedText(query) has resolved to
\* queryEmbedding: the rankings it may return, or the error of the first
\* cosineSimilarity call that throws
searchVectors(be, idx, queryEmbedding, topK) ==
  LET scored == [k \in 1 .. Len(idx) |->
                   IF be = "memory"
                     THEN EmbeddingService_cosineSimilarity(queryEmbedding, idx[k].embedding)
                     ELSE SQLiteDocumentStore_cosineSimilarity(queryEmbedding,
                                                               idx[k].embedding)]
      similarities == [k \in 1 .. Len(idx) |->
                         [chunk |-> idx[k].chunk, similarity |-> scored[k].value]]
  IN IF \E k \in 1 .. Len(idx) : scored[k].threw
       THEN {[threw |-> TRUE, value |-> <<>>]}
       ELSE {[threw |-> FALSE, value |-> Slice(ranking, 0, topK)] :
               ranking \in sortedBySimilarity(similarities)}

\* the index entry for chunk i of document 1 with the given embedding
Entry(i, embedding) ==
  [chunk |-> [content |-> <<>>, documentId |-> 1, chunkIndex |-> i,
              range |-> [start |-> 0, end |-> 0]],
   embedding |-> embedding]

\* a store of either backend whose index holds up to MaxEntries entries with
\* embeddings of any of the lengths
SimilarityInit ==
  /\ backend \in {"memory", "sqlite"}
  /\ documents = <<>>
  /\ documentRows = <<>>
  /\ chunkRows = {}
  /\ \E n \in 0 .. MaxEntries : \E e \in [1 .. n -> Vectors] :
       chunks = [k \in 1 .. n |-> Entry(k - 1, e[k])]
  /\ issued = {}
  /\ deleted = {}
  /\ failures = 0
  /\ result = Idle
  /\ chunker = NoChunker
  /\ mirror = NoMirror
  /\ chat = NoChat
  /\ calls = NoCalls
  /\ chatLoop = NoChatLoop

\* search(query, topK) from the point where the query embedding is known
SearchVectors ==
  /\ result = Idle
  /\ \E queryEmbedding \in Vectors, topK \in 0 .. MaxTopK :
       \E r \in searchVectors(backend, chunks, queryEmbedding, topK) :
         result' = [op |-> "searchVectors", queryEmbedding |-> queryEmbedding,
                    topK |-> topK, threw |-> r.threw, value |-> r.value]
  /\ UNCHANGED <<chatLoop, calls, chunker, mirror, chat, backend, documents, documentRows, chunkRows, chunks,
                 issued, deleted, failures>>

SimilarityNext ==
  \/ SearchVectors
  \/ Return

SimilaritySpec == SimilarityInit /\ [][SimilarityNext]_vars

(* ---------------------- vocabulary of the properties ------------------- *)

\* the Document records of the store, read from the state itself
StoredDocuments ==
  IF backend = "memory"
    THEN {documents[k] : k \in 1 .. Len(documents)}
    ELSE {[id |-> documentRows[k].id, content |-> documentRows[k].content,
           numberOfChunks |-> documentRows[k].numberOfChunks,
           metadata |-> documentRows[k].metadata[2]] : k \in 1 .. Len(documentRows)}

StoredIds == {d.id : d \in StoredDocuments}

DocumentOf(id) == CHOOSE d \in StoredDocuments : d.id = id

\* the chunks of the embedding index
IndexedChunks == {chunks[k].chunk : k \in 1 .. Len(chunks)}

\* the Chunk entities of the store: the index entries in memory, the chunk rows
\* on SQLite
ChunkEntities ==
  IF backend = "memory" THEN IndexedChunks
  ELSE {[content |-> r.content, documentId |-> r.documentId, chunkIndex |-> r.chunkIndex,
         range |-> [start |-> r.rangeStart, end |-> r.rangeEnd]] : r \in chunkRows}

ChunksOfDocument(id) == {c \in ChunkEntities : c.documentId = id}

ChunkAt(id, i) == CHOOSE c \in ChunksOfDocument(id) : c.chunkIndex = i

\* the characters of content at the offsets from + 1 .. to
Characters(content, from, to) == [k \in 1 .. to - from |-> content[from + k]]

RECURSIVE ConcatRanges(_, _, _)
ConcatRanges(d, i, n) ==
  IF i >= n THEN <<>>
  ELSE Characters(d.content, ChunkAt(d.id, i).range.start, ChunkAt(d.id, i).range.end)
       \o ConcatRanges(d, i + 1, n)

Partitioned(d) ==
  LET cs == ChunksOfDocument(d.id)
      n == Cardinality(cs)
  IN /\ {c.chunkIndex : c \in cs} = 0 .. n - 1
     /\ \A c \in cs :
          /\ c.range.start = IF c.chunkIndex = 0 THEN 0 ELSE ChunkAt(d.id, c.chunkIndex - 1).range.end
          /\ c.range.start <= c.range.end
          /\ c.chunkIndex = n - 1 => c.range.end = Len(d.content)
     /\ ConcatRanges(d, 0, n) = d.content

(* -------------------------------- C1 ---------------------------------- *)

\* C1: after any sequence of addDocument, deleteDocument, editChunk and
\* clearAllDocuments, the chunks of every stored Document partition its
\* content: chunk 0 starts at 0, each chunk ends where the next starts, the
\* last ends at content.length, and the slices concatenate to the content.
C1_RangesPartitionContent == \A d \in StoredDocuments : Partitioned(d)

(* -------------------------------- C2 ---------------------------------- *)

\* the shown and omitted units render emitted for one document
UnitsOf(parts, id) ==
  SelectSeq(parts, LAMBDA u : u.documentId = id /\ u.kind \in {"shown", "omitted"})

\* C2: for every non-empty set of requests on an existing Document and all
\* integer startIndex and endIndex, the units render emits for it cover every
\* chunk index in [0, numberOfChunks) by exactly one unit and are strictly
\* ordered by index and pairwise non-overlapping.
C2_RenderCoversEveryIndexOnce ==
  result.op = "render" =>
    \A k \in 1 .. Len(result.requests) :
      LET id == result.requests[k].documentId
      IN id \in StoredIds =>
           /\ ~result.threw
           /\ LET units == UnitsOf(result.parts, id)
              IN /\ \A i \in 0 .. DocumentOf(id).numberOfChunks - 1 :
                      Cardinality({j \in 1 .. Len(units) :
                                     units[j].indexStart <= i /\ i <= units[j].indexEnd}) = 1
                 /\ \A j \in 1 .. Len(units) : units[j].indexStart <= units[j].indexEnd
                 /\ \A j \in 1 .. Len(units) - 1 : units[j].indexEnd < units[j + 1].indexStart

(* ----------------------------- C3 .. C6 ------------------------------- *)

\* an index entry for chunk i of document id exists
Indexed(id, i) == \E c \in IndexedChunks : c.documentId = id /\ c.chunkIndex = i

IndexedChunk(id, i) == CHOOSE c \in IndexedChunks : c.documentId = id /\ c.chunkIndex = i

\* pat occurs in text at offset p
OccursAt(text, pat, p) ==
  /\ p + Len(pat) <= Len(text)
  /\ \A k \in 1 .. Len(pat) : text[p + k] = pat[k]

Occurs(text, pat) == \E p \in 0 .. Len(text) : OccursAt(text, pat, p)

\* text with its first occurrence of oldSpan replaced by newSpan, written out
ReplaceFirst(text, oldSpan, newSpan) ==
  IF ~Occurs(text, oldSpan) THEN text
  ELSE LET p == CHOOSE q \in 0 .. Len(text) :
                  OccursAt(text, oldSpan, q) /\ \A r \in 0 .. q - 1 : ~OccursAt(text, oldSpan, r)
       IN Characters(text, 0, p) \o newSpan \o Characters(text, p + Len(oldSpan), Len(text))

\* the call whose result is pending was editChunk, issued in the state before
EditReturned == result = Idle /\ result'.op = "editChunk"

\* the span of document id between the start of chunk s and the end of chunk e
SpanStart(id, s) == IndexedChunk(id, s).range.start

SpanEnd(id, e) == IndexedChunk(id, e).range.end

SpanOf(id, s, e) ==
  IF SpanStart(id, s) >= SpanEnd(id, e) THEN <<>>
  ELSE Characters(DocumentOf(id).content, SpanStart(id, s), SpanEnd(id, e))

StoreUnchanged == UNCHANGED <<chatLoop, calls, documents, documentRows, chunkRows, chunks, issued>>

\* C3: for a stored Document d and existing chunk indices s <= e, when oldSpan
\* occurs in the span and the replacement changes the span, editChunk returns a
\* Document whose content is d.content[0 : chunk[s].start] + (the span with only
\* its first occurrence of oldSpan replaced by newSpan) + d.content[chunk[e].end :].
C3_EditReplacesFirstOccurrenceInSpan ==
  [][EditReturned =>
       LET id == result'.documentId
           s == result'.chunkIndexStart
           e == result'.chunkIndexEnd
       IN (/\ id \in StoredIds /\ s <= e /\ Indexed(id, s) /\ Indexed(id, e)
           /\ Occurs(SpanOf(id, s, e), result'.oldContent)
           /\ ReplaceFirst(SpanOf(id, s, e), result'.oldContent, result'.newContent)
                # SpanOf(id, s, e))
          => /\ ~(result'.kind = "failure" /\ result'.value = ContentIsTheSame)
             /\ result'.kind = "document" =>
                  result'.value.content =
                    Characters(DocumentOf(id).content, 0, SpanStart(id, s))
                    \o ReplaceFirst(SpanOf(id, s, e), result'.oldContent, result'.newContent)
                    \o Characters(DocumentOf(id).content, SpanEnd(id, e),
                                  Len(DocumentOf(id).content))]_vars

\* C4: whenever editChunk(id, ...) returns a Document, its id differs from id
\* and from every id issued before, it carries the original's metadata and is
\* retrievable, getDocument(id) is absent afterwards, and no chunk or index entry
\* with documentId = id remains.
C4_EditRetiresTheOriginal ==
  [][(EditReturned /\ result'.kind = "document") =>
       LET id == result'.documentId
       IN /\ result'.value.id # id
          /\ result'.value.id \notin issued
          /\ result'.value.metadata = DocumentOf(id).metadata
          /\ result'.value \in StoredDocuments'
          /\ id \notin StoredIds'
          /\ \A c \in ChunkEntities' : c.documentId # id
          /\ \A c \in IndexedChunks' : c.documentId # id]_vars

\* C5: editChunk returns the NoOp failure whenever replacing the first
\* occurrence of oldSpan by newSpan leaves the targeted span unchanged (oldSpan
\* absent from the span, present only outside it, or equal to newSpan), and then
\* the Documents, their chunks and the index are as before the call.
C5_UnchangedSpanIsNoOp ==
  [][EditReturned =>
       LET id == result'.documentId
           s == result'.chunkIndexStart
           e == result'.chunkIndexEnd
       IN (/\ id \in StoredIds /\ Indexed(id, s) /\ Indexed(id, e)
           /\ ReplaceFirst(SpanOf(id, s, e), result'.oldContent, result'.newContent)
                = SpanOf(id, s, e))
          => /\ result'.kind = "failure"
             /\ result'.value = ContentIsTheSame
             /\ StoreUnchanged]_vars

C7_DeletedNeverSearched ==
  (result.op = "search" /\ ~result.threw) =>
    \A k \in 1 .. Len(result.value) : result.value[k].chunk.documentId \notin deleted

\* C8: on the persistent backend, after deleteDocument(id) returns true no
\* chunk row with documentId = id remains, and between operations every chunk
\* row belongs to a document row.
C8_NoOrphanChunkRows ==
  backend = "sqlite" =>
    /\ \A r \in chunkRows : r.documentId \in StoredIds
    /\ (result.op = "deleteDocument" /\ result.value) =>
         \A r \in chunkRows : r.documentId # result.id

\* C9: after an addDocument call has thrown, the index holds no entry for
\* that document's chunks and no Document record for it exists: no chunk is
\* left indexed without a matching Document record.
C9_FailedAddLeavesNothing ==
  (result.op = "addDocument" /\ result.threw) =>
    /\ \A c \in IndexedChunks : c.documentId # result.id
    /\ \A c \in ChunkEntities : c.documentId # result.id
    /\ result.id \notin StoredIds

\* the similarity of an index entry to the query of the pending search
SimilarityTo(query, entry) == cosineSimilarity(embedText(query), entry.embedding)

\* the index entries the pending search did not return
LeftOut ==
  {k \in 1 .. Len(chunks) :
     \A j \in 1 .. Len(result.value) : result.value[j].chunk # chunks[k].chunk}

RanksBefore(query, j, k) ==
  \/ SimLess(SimilarityTo(query, chunks[k]), SimilarityTo(query, chunks[j]))
  \/ /\ ~SimLess(SimilarityTo(query, chunks[j]), SimilarityTo(query, chunks[k]))
     /\ j < k

\* the rank (1 = best) of index entry k in the full ranking of the query
RankOf(query, k) == 1 + Cardinality({j \in 1 .. Len(chunks) : j # k /\ RanksBefore(query, j, k)})

\* the index entry of rank r
EntryOfRank(query, r) == CHOOSE k \in 1 .. Len(chunks) : RankOf(query, k) = r

\* C11: for every query, topK >= 0 and skip >= 0, the chunks the search action
\* selects are exactly ranks skip+1 .. skip+topK of the full ranking of the
\* index (as many of them as exist, at most topK), each with its similarity,
\* and the query is embedded once.
C11_PaginationIsASliceOfTheRanking ==
  (result.op = "searchAction" /\ ~result.searchThrew
   /\ result.topK >= 0 /\ result.skip >= 0) =>
    /\ Len(result.selected) = Max(0, Min(result.topK, Len(chunks) - result.skip))
    /\ Len(result.selected) <= result.topK
    /\ \A m \in 1 .. Len(result.selected) :
         /\ result.selected[m].chunk = chunks[EntryOfRank(result.query, result.skip + m)].chunk
         /\ result.selected[m].similarity =
              SimilarityTo(result.query, chunks[EntryOfRank(result.query, result.skip + m)])
    /\ result.embedTextCalls = <<result.query>>

\* reached: a page in the middle of the ranking: something skipped, something
\* selected, something left beyond the page
C11_Witness ==
  /\ result.op = "searchAction"
  /\ ~result.searchThrew
  /\ result.skip >= 1
  /\ result.topK >= 1
  /\ Len(result.selected) = result.topK
  /\ Len(chunks) > result.skip + result.topK

(* -------------------------------- C12 --------------------------------- *)

\* the place of the stored Document id in the order the Documents were added:
\* Map insertion order in memory, rowid order of the documents table on SQLite
AddedAt(id) ==
  IF backend = "memory"
    THEN CHOOSE k \in 1 .. Len(documents) : documents[k].id = id
    ELSE CHOOSE k \in 1 .. Len(documentRows) : documentRows[k].id = id

\* chunk c was added to the store before chunk d (both of stored Documents)
AddedBefore(c, d) ==
  \/ AddedAt(c.documentId) < AddedAt(d.documentId)
  \/ c.documentId = d.documentId /\ c.chunkIndex < d.chunkIndex

\* C12: when two chunks of stored Documents have equal similarity to the
\* query, the one added to the store earlier ranks first in the search result,
\* on both backends, also after loadStoredDocumentsToVectorStore has rebuilt
\* the index.
C12_TiesRankByInsertionOrder ==
  (result.op = "search" /\ ~result.threw) =>
    \A j \in 1 .. Len(result.value) : \A k \in j + 1 .. Len(result.value) :
      (/\ result.value[j].similarity = result.value[k].similarity
       /\ result.value[j].chunk.documentId \in StoredIds
       /\ result.value[k].chunk.documentId \in StoredIds)
      => AddedBefore(result.value[j].chunk, result.value[k].chunk)

(* ----------------------------- C13 .. C16 ----------------------------- *)

\* the pending call is a render and these are the document ids it names
RequestIds == {result.requests[k].documentId : k \in 1 .. Len(result.requests)}

\* kind and index range of each unit, in the order emitted
Shapes(units) ==
  [k \in 1 .. Len(units) |-> <<units[k].kind, units[k].indexStart, units[k].indexEnd>>]

\* C13: for every stored Document, render of the single request
\* (doc, 0, numberOfChunks - 1) completes and returns exactly one shown unit,
\* covering [0, numberOfChunks - 1], whose text is the Document's content, and
\* no omitted unit.
C13_WholeDocumentRendersAsOneUnit ==
  (/\ result.op = "render"
   /\ Len(result.requests) = 1
   /\ result.requests[1].documentId \in StoredIds
   /\ result.requests[1].start = 0
   /\ result.requests[1].end = DocumentOf(result.requests[1].documentId).numberOfChunks - 1)
  => LET d == DocumentOf(result.requests[1].documentId)
     IN /\ ~result.threw
        /\ UnitsOf(result.parts, d.id)
             = <<Unit("shown", d.id, 0, d.numberOfChunks - 1, d.content)>>

\* what C14 expects for single-chunk requests i and j, i + 1 < j < n
Expected14(i, j, n) ==
  (IF i > 0 THEN <<<<"omitted", 0, i - 1>>>> ELSE <<>>)
  \o <<<<"shown", i, i>>, <<"omitted", i + 1, j - 1>>, <<"shown", j, j>>>>
  \o (IF j < n - 1 THEN <<<<"omitted", j + 1, n - 1>>>> ELSE <<>>)

\* C14: for a Document with n chunks and the two single-chunk requests
\* (doc, i, i) and (doc, j, j), i + 1 < j < n, in either order, render emits
\* omitted[0, i-1] (only if i > 0), shown[i, i], omitted[i+1, j-1], shown[j, j],
\* omitted[j+1, n-1] (only if j < n-1), in this order.
C14_TwoSeparateChunks ==
  (/\ result.op = "render"
   /\ Len(result.requests) = 2
   /\ result.requests[1].documentId = result.requests[2].documentId
   /\ result.requests[1].documentId \in StoredIds
   /\ result.requests[1].start = result.requests[1].end
   /\ result.requests[2].start = result.requests[2].end
   /\ LET i == Min(result.requests[1].start, result.requests[2].start)
          j == Max(result.requests[1].start, result.requests[2].start)
      IN 0 <= i /\ i + 1 < j
         /\ j < DocumentOf(result.requests[1].documentId).numberOfChunks)
  => LET id == result.requests[1].documentId
         i == Min(result.requests[1].start, result.requests[2].start)
         j == Max(result.requests[1].start, result.requests[2].start)
     IN /\ ~result.threw
        /\ Shapes(UnitsOf(result.parts, id)) = Expected14(i, j, DocumentOf(id).numberOfChunks)

\* C15: when a render request set names an id with no stored Document, render
\* throws nothing, emits exactly one not-found unit for that id and no shown or
\* omitted unit for it, and every stored Document named in the same set is
\* still rendered (it has a shown unit).
C15_UnknownDocumentIsReportedNotFound ==
  (result.op = "render" /\ RequestIds \ StoredIds # {}) =>
    /\ ~result.threw
    /\ \A id \in RequestIds \ StoredIds :
         /\ Len(SelectSeq(result.parts,
                          LAMBDA u : u.documentId = id /\ u.kind = "notFound")) = 1
         /\ UnitsOf(result.parts, id) = <<>>
    /\ \A id \in RequestIds \cap StoredIds :
         \E k \in 1 .. Len(result.parts) :
           result.parts[k].documentId = id /\ result.parts[k].kind = "shown"

\* the shown units render emitted for one document
ShownOf(parts, id) == SelectSeq(parts, LAMBDA u : u.documentId = id /\ u.kind = "shown")

\* the later render of the single request (doc, a, b) for an omitted unit
Resolve(u) ==
  documentRender(backend, Store,
                 <<[documentId |-> u.documentId, start |-> u.indexStart, end |-> u.indexEnd]>>)

\* the shown texts of the units, an omitted unit replaced by the shown text of
\* its later render, concatenated in the order of the units
RECURSIVE ResolvedText(_)
ResolvedText(units) ==
  IF units = <<>> THEN <<>>
  ELSE LET u == Head(units)
           text == IF u.kind = "shown" THEN u.content
                   ELSE LET shown == ShownOf(Resolve(u).parts, u.documentId)
                        IN IF shown = <<>> THEN <<>> ELSE shown[1].content
       IN text \o ResolvedText(Tail(units))

\* C16: for a render of requests inside the index range of a stored Document,
\* every omitted unit [a, b] it emits is resolvable (the render of the single
\* request (doc, a, b) on the unchanged store returns one shown unit, [a, b] with
\* text content.slice(chunk[a].range.start, chunk[b].range.end)), and the shown
\* texts of the render and of the renders of its omitted units, concatenated in
\* index order, are the Document's content.
C16_OmittedUnitsAreResolvable ==
  (/\ result.op = "render"
   /\ \A k \in 1 .. Len(result.requests) :
        /\ result.requests[k].documentId \in StoredIds
        /\ 0 <= result.requests[k].start
        /\ result.requests[k].start <= result.requests[k].end
        /\ result.requests[k].end
             < DocumentOf(result.requests[k].documentId).numberOfChunks)
  => /\ ~result.threw
     /\ \A id \in RequestIds :
          /\ \A k \in 1 .. Len(UnitsOf(result.parts, id)) :
               LET u == UnitsOf(result.parts, id)[k]
               IN u.kind = "omitted" =>
                    /\ ~Resolve(u).threw
                    /\ ShownOf(Resolve(u).parts, id)
                         = <<Unit("shown", id, u.indexStart, u.indexEnd,
                                  Slice(DocumentOf(id).content,
                                        ChunkAt(id, u.indexStart).range.start,
                                        ChunkAt(id, u.indexEnd).range.end))>>
          /\ ResolvedText(UnitsOf(result.parts, id)) = DocumentOf(id).content

(* -------------------------------- C17 --------------------------------- *)

\* C17: addDocument of a text no longer than chunkSize, the empty text
\* included, yields a Document with numberOfChunks = 1 whose one chunk is the
\* whole text with range [0, len(text)), and every stored Document has
\* numberOfChunks >= 1.
C17_ShortTextIsOneChunk ==
  /\ \A d \in StoredDocuments : d.numberOfChunks >= 1
  /\ (result.op = "addDocument" /\ ~result.threw /\ Len(result.content) <= chunkSize) =>
       /\ result.value.numberOfChunks = 1
       /\ ChunksOfDocument(result.id)
            = {[content |-> result.content, documentId |-> result.id, chunkIndex |-> 0,
                range |-> [start |-> 0, end |-> Len(result.content)]]}

(* -------------------------------- C18 --------------------------------- *)

\* the Chunk entities of Document d carry the indices 0 .. numberOfChunks - 1,
\* once each, and getChunkByIndex finds a chunk exactly for these indices
ChunksMatchTheCount(d) ==
  /\ {c.chunkIndex : c \in ChunksOfDocument(d.id)} = 0 .. d.numberOfChunks - 1
  /\ Cardinality(ChunksOfDocument(d.id)) = d.numberOfChunks
  /\ \A i \in 0 - 1 .. d.numberOfChunks + 1 :
       getChunkByIndex(backend, Store, d.id, i) # Null <=> (0 <= i /\ i < d.numberOfChunks)

\* a Document that exists before and after a step is the same record with the
\* same chunks
DocumentsAreImmutable ==
  \A d \in StoredDocuments :
    d.id \in StoredIds' => DocumentOf(d.id)' = d /\ ChunksOfDocument(d.id)' = ChunksOfDocument(d.id)

\* C18: in every state between operations, for every stored Document d the
\* Chunk entities of d have the chunkIndex values 0 .. d.numberOfChunks - 1 with
\* no duplicate and getChunkByIndex(d.id, i) returns a chunk iff
\* 0 <= i < d.numberOfChunks; and d.numberOfChunks, d.content and the chunk
\* ranges never change while d exists.
C18_ChunkCountIsExactAndImmutable ==
  /\ [](\A d \in StoredDocuments : ChunksMatchTheCount(d))
  /\ [][DocumentsAreImmutable]_vars

(* ----------------------------- C19, C20 ------------------------------- *)

\* an iteration of chunk(text) that goes on to a next one moves the cursor
\* forward
CursorAdvances ==
  (chunker.pc = "loop" /\ chunker'.pc = "loop") => chunker'.start > chunker.start

\* C19: TextChunker.chunk terminates for every text and every configured pair
\* (chunkSize, chunkOverlap), chunkOverlap >= chunkSize included: the cursor
\* advances in every iteration and the loop runs at most once per character
\* of the text (once for the empty text).
C19_ChunkerTerminates ==
  /\ [][CursorAdvances]_vars
  /\ [](chunker.pc # "none" => Len(chunker.ends) <= Max(1, Len(chunker.text)))

\* the call of chunk(text) with chunkSize = 10, chunkOverlap = 3 and a text
\* of length 25 has returned
Example20 ==
  /\ chunker.pc = "done"
  /\ chunker.chunkSize = 10
  /\ chunker.chunkOverlap = 3
  /\ Len(chunker.text) = 25

\* the reconstruction range addDocument gives window i (0-based) of the call
RangeOf(i) ==
  [start |-> IF i = 0 THEN 0 ELSE chunker.ends[i], end |-> chunker.ends[i + 1]]

\* C20 as stated: with chunkSize = 10, chunkOverlap = 3 and a text of length
\* 25 the partitioner produces exactly 3 chunks with boundaries 10, 20, 25;
\* the window of chunk 1 is text[7:20] and its range is [10, 20).
C20_Example_AsStated ==
  Example20 =>
    /\ Len(chunker.chunks) = 3
    /\ chunker.ends = <<10, 20, 25>>
    /\ chunker.chunks[2] = [k \in 1 .. 13 |-> 6 + k]
    /\ RangeOf(1) = [start |-> 10, end |-> 20]

\* C20 amended: with chunkSize = 10, chunkOverlap = 3 and a text of length 25
\* the partitioner produces exactly 4 chunks with boundaries 10, 17, 24, 25;
\* the window of chunk 1 is text[7:17] (started at 10 - 3) and its range is
\* [10, 17).
C20_Example ==
  Example20 =>
    /\ Len(chunker.chunks) = 4
    /\ chunker.ends = <<10, 17, 24, 25>>
    /\ chunker.chunks[2] = [k \in 1 .. 10 |-> 6 + k]
    /\ RangeOf(1) = [start |-> 10, end |-> 17]

\* reached: the call of the example has returned
C20_Witness == Example20 /\ Len(chunker.ends) > 1

(* ------------- the chat sessions kept by ChatStatePersistence ---------- *)

\* a column or a field that holds a value
NotNull(v) == [isNull |-> FALSE, value |-> v]

SessionIds == {"s1", "s2"}

\* a conversation with a message of every role of ChatMessage; a timestamp
\* is a Date, here its time value in milliseconds
Conversation ==
  << [role |-> "user", content |-> "hi", timestamp |-> 999],
     [role |-> "toolCall", functionName |-> "search", arguments |-> "{}", id |-> "",
      timestamp |-> 1500],
     [role |-> "toolCall", functionName |-> "search", arguments |-> "{}", id |-> "call_1",
      timestamp |-> 2001],
     [role |-> "toolResponse", id |-> "call_1", content |-> "found", timestamp |-> 3000],
     [role |-> "webSearchCall", timestamp |-> 4100],
     [role |-> "ai", content |-> "", timestamp |-> 4101] >>

\* the chat states saved: the cleared state, and up to MaxMessages messages
\* in a row of the conversation with the id of the last response
ChatStates ==
  {[messages |-> <<>>, previousResponseId |-> Null]}
    \cup UNION {{[messages |-> SubSeq(Conversation, from, from + n - 1),
                   previousResponseId |-> NotNull("resp_1")] :
                    from \in 1 .. Len(Conversation) - n + 1} : n \in 1 .. MaxMessages}

\* Date.prototype.toISOString: the seconds and the three digits of milliseconds
toISOString(timestamp) == [seconds |-> timestamp \div 1000, millis |-> timestamp % 1000]

\* new Date(row.timestamp)
ParseDate(iso) == iso.seconds * 1000 + iso.millis

\* row.message_id || ''
OrEmpty(column) == IF column.isNull \/ column.value = "" THEN "" ELSE column.value

\* serializeMessage, one case per role of ChatMessage
serializeMessage(message) ==
  CASE message.role \in {"user", "ai"} ->
         [role |-> message.role, content |-> NotNull(message.content), functionName |-> Null,
          arguments |-> Null, messageId |-> Null, timestamp |-> message.timestamp]
    [] message.role = "toolCall" ->
         [role |-> message.role, content |-> Null,
          functionName |-> NotNull(message.functionName),
          arguments |-> NotNull(message.arguments), messageId |-> NotNull(message.id),
          timestamp |-> message.timestamp]
    [] message.role = "toolResponse" ->
         [role |-> message.role, content |-> NotNull(message.content), functionName |-> Null,
          arguments |-> Null, messageId |-> NotNull(message.id),
          timestamp |-> message.timestamp]
    [] message.role = "webSearchCall" ->
         [role |-> message.role, content |-> Null, functionName |-> Null, arguments |-> Null,
          messageId |-> Null, timestamp |-> message.timestamp]

\* the row insertMessage.run writes for state.messages[index]
MessageRow(message, index) ==
  LET serializedMessage == serializeMessage(message)
  IN [role |-> serializedMessage.role,
      content |-> serializedMessage.content,
      function_name |-> serializedMessage.functionName,
      arguments |-> serializedMessage.arguments,
      message_id |-> serializedMessage.messageId,
      timestamp |-> toISOString(serializedMessage.timestamp),
      message_order |-> index]

\* deserializeMessage, one case per role
deserializeMessage(row) ==
  LET timestamp == ParseDate(row.timestamp)
  IN CASE row.role \in {"user", "ai"} ->
            [role |-> row.role, content |-> row.content.value, timestamp |-> timestamp]
       [] row.role = "toolCall" ->
            [role |-> "toolCall", functionName |-> row.function_name.value,
             arguments |-> row.arguments.value, id |-> OrEmpty(row.message_id),
             timestamp |-> timestamp]
       [] row.role = "toolResponse" ->
            [role |-> "toolResponse", id |-> OrEmpty(row.message_id),
             content |-> row.content.value, timestamp |-> timestamp]
       [] row.role = "webSearchCall" ->
            [role |-> "webSearchCall", timestamp |-> timestamp]

\* the two tables after initialize(): the rows of chat_sessions, and the rows
\* of chat_messages of each session_id in the order they were inserted
EmptyTables == [chat_sessions |-> {}, chat_messages |-> [id \in SessionIds |-> <<>>]]

\* no transaction is open on the connection
NoTransaction == [open |-> FALSE]

\* what the statements of this connection read and write: the tables of the
\* open transaction if there is one, else the stored ones
Tables(c) == IF c.transaction.open THEN c.transaction.tables ELSE c.stored

\* the connection after a statement has left the tables as t: stored at once
\* when no transaction is open
Written(c, t) ==
  IF c.transaction.open THEN [c EXCEPT !.transaction.tables = t] ELSE [c EXCEPT !.stored = t]

\* BEGIN TRANSACTION on a connection that has none open
Begin(c) == [c EXCEPT !.transaction = [open |-> TRUE, tables |-> c.stored]]

\* COMMIT
Commit(c) ==
  IF c.transaction.open
    THEN [c EXCEPT !.stored = c.transaction.tables, !.transaction = NoTransaction]
    ELSE c

\* ROLLBACK, and what closing the database does to an open transaction
Rollback(c) == [c EXCEPT !.transaction = NoTransaction]

\* INSERT OR REPLACE INTO chat_sessions (id, updated_at, message_count)
UpsertSession(t, sessionId, count) ==
  [t EXCEPT !.chat_sessions =
     {row \in @ : row.id # sessionId} \cup {[id |-> sessionId, message_count |-> count]}]

\* DELETE FROM chat_messages WHERE session_id = ?
DeleteMessages(t, sessionId) == [t EXCEPT !.chat_messages[sessionId] = <<>>]

\* insertMessage.run for each index of the set, in the order of the indexes
RECURSIVE InsertMessages(_, _, _, _)
InsertMessages(t, sessionId, messages, indexes) ==
  IF indexes = {} THEN t
  ELSE LET i == CHOOSE k \in indexes : \A j \in indexes : k <= j
       IN InsertMessages(
            [t EXCEPT !.chat_messages[sessionId] = Append(@, MessageRow(messages[i], i - 1))],
            sessionId, messages, indexes \ {i})

\* the statement of saveSession that fails, if one does
NoSaveFault == [at |-> "none", index |-> 0]

SaveFaults(state) ==
  {NoSaveFault, [at |-> "upsert", index |-> 0], [at |-> "delete", index |-> 0]}
    \cup {[at |-> "insert", index |-> i] : i \in 1 .. Len(state.messages)}

\* the statements of saveSession that take effect, run on the tables the
\* connection writes: the upsert, the delete, and the inserts of `indexes`
SaveStatements(c, sessionId, state, fault, indexes) ==
  LET t0 == Tables(c)
      t1 == IF fault.at = "upsert" THEN t0
            ELSE UpsertSession(t0, sessionId, Len(state.messages))
      t2 == IF fault.at = "delete" THEN t1 ELSE DeleteMessages(t1, sessionId)
  IN Written(c, InsertMessages(t2, sessionId, state.messages, indexes))

\* the outcomes of saveSession(sessionId, state) once BEGIN TRANSACTION has
\* been run or has failed: the connection it leaves, how the promise
\* settles, and whether a statement run without a callback has failed
\* (its 'error' event is emitted on the database, which has no listener)
saveSession(c, sessionId, state, fault) ==
  LET n == Len(state.messages)
      all == 1 .. n
  IN CASE fault.at = "none" ->
            \* every insert calls back, the last one runs COMMIT
            {[chat |-> Commit(SaveStatements(c, sessionId, state, fault, all)),
              settled |-> "resolved", unhandled |-> FALSE]}
       [] fault.at = "insert" ->
            \* the callback of the failed insert returns before insertCount++:
            \* finishTransaction is never called, neither COMMIT nor ROLLBACK runs
            {[chat |-> SaveStatements(c, sessionId, state, fault, all \ {fault.index}),
              settled |-> "rejected", unhandled |-> FALSE]}
       [] fault.at \in {"upsert", "delete"} /\ n = 0 ->
            \* finishTransaction has queued COMMIT already; the ROLLBACK of the
            \* callback comes after it and finds no transaction
            {[chat |-> Commit(SaveStatements(c, sessionId, state, fault, {})),
              settled |-> "rejected", unhandled |-> TRUE]}
       [] fault.at \in {"upsert", "delete"} /\ n > 0 ->
            \* the ROLLBACK of the callback is queued with the inserts of the
            \* prepared statement, outside serialize: the inserts that run
            \* after it are stored one by one, and COMMIT finds no transaction
            {[chat |-> LET undone == Rollback(c)
                       IN Written(undone,
                                  InsertMessages(Tables(undone), sessionId, state.messages,
                                                 later)),
              settled |-> "rejected", unhandled |-> FALSE] : later \in SUBSET all}

\* the rows of a session in every order ORDER BY message_order ASC allows
OrderedRows(rows) ==
  {[k \in 1 .. Len(rows) |-> rows[o[k]]] :
     o \in {p \in Orders(Len(rows)) :
              \A k \in 1 .. Len(rows) - 1 :
                rows[p[k]].message_order <= rows[p[k + 1]].message_order}}

\* loadSession(sessionId): null when chat_sessions has no such row, else the
\* messages deserialized in message_order and previousResponseId null
loadSession(c, sessionId) ==
  LET t == Tables(c)
  IN IF \A row \in t.chat_sessions : row.id # sessionId
       THEN {[kind |-> "null"]}
       ELSE {[kind |-> "state",
              messages |-> [k \in 1 .. Len(rows) |-> deserializeMessage(rows[k])],
              previousResponseId |-> Null] : rows \in OrderedRows(t.chat_messages[sessionId])}

\* deleteSession(sessionId): DELETE FROM chat_sessions WHERE id = ?, changes > 0
deleteSession(c, sessionId) ==
  LET t == Tables(c)
  IN [chat |-> Written(c, [t EXCEPT !.chat_sessions = {row \in @ : row.id # sessionId}]),
      value |-> \E row \in t.chat_sessions : row.id = sessionId]

SessionInit ==
  /\ backend = "sqlite"
  /\ documents = <<>>
  /\ documentRows = <<>>
  /\ chunkRows = <<>>
  /\ chunks = <<>>
  /\ issued = {}
  /\ deleted = {}
  /\ failures = 0
  /\ result = Idle
  /\ chunker = NoChunker
  /\ mirror = NoMirror
  /\ chat = [on |-> TRUE, stored |-> EmptyTables, transaction |-> NoTransaction]
  /\ calls = NoCalls
  /\ chatLoop = NoChatLoop

\* await chatPersistence.saveSession(sessionId, state)
SaveSession ==
  /\ result = Idle
  /\ \E sessionId \in SessionIds, state \in ChatStates :
       \E fault \in SaveFaults(state) :
         /\ fault.at # "none" => failures < MaxSaveFailures
         /\ failures' = IF fault.at = "none" THEN failures ELSE failures + 1
         /\ IF chat.transaction.open
              THEN \* BEGIN TRANSACTION fails, and it has no callback: either
                   \* the 'error' event ends the process and the transaction
                   \* with it, or the statements go on in the open transaction
                   \/ /\ fault.at = "none"
                      /\ chat' = Rollback(chat)
                      /\ result' = [op |-> "saveSession", sessionId |-> sessionId,
                                    state |-> state, fault |-> fault,
                                    settled |-> "never", unhandled |-> TRUE]
                   \/ \E out \in saveSession(chat, sessionId, state, fault) :
                        /\ chat' = out.chat
                        /\ result' = [op |-> "saveSession", sessionId |-> sessionId,
                                      state |-> state, fault |-> fault,
                                      settled |-> out.settled, unhandled |-> TRUE]
              ELSE \E out \in saveSession(Begin(chat), sessionId, state, fault) :
                     /\ chat' = out.chat
                     /\ result' = [op |-> "saveSession", sessionId |-> sessionId,
                                   state |-> state, fault |-> fault,
                                   settled |-> out.settled, unhandled |-> out.unhandled]
  /\ UNCHANGED <<chatLoop, calls, backend, documents, documentRows, chunkRows, chunks, issued, deleted,
                 chunker, mirror>>

\* await chatPersistence.loadSession(sessionId)
LoadSession ==
  /\ result = Idle
  /\ \E sessionId \in SessionIds :
       \E value \in loadSession(chat, sessionId) :
         result' = [op |-> "loadSession", sessionId |-> sessionId, value |-> value]
  /\ UNCHANGED <<chatLoop, calls, backend, documents, documentRows, chunkRows, chunks, issued, deleted,
                 failures, chunker, mirror, chat>>

\* await chatPersistence.deleteSession(sessionId)
DeleteSession ==
  /\ result = Idle
  /\ \E sessionId \in SessionIds :
       LET out == deleteSession(chat, sessionId)
       IN /\ chat' = out.chat
          /\ result' = [op |-> "deleteSession", sessionId |-> sessionId, value |-> out.value]
  /\ UNCHANGED <<chatLoop, calls, backend, documents, documentRows, chunkRows, chunks, issued, deleted,
                 failures, chunker, mirror>>

\* await chatPersistence.close(), and the next run of the program opening
\* the same file: a transaction left open is rolled back
Close ==
  /\ result = Idle
  /\ chat' = Rollback(chat)
  /\ result' = [op |-> "close"]
  /\ UNCHANGED <<chatLoop, calls, backend, documents, documentRows, chunkRows, chunks, issued, deleted,
                 failures, chunker, mirror>>

SessionNext ==
  \/ SaveSession
  \/ LoadSession
  \/ DeleteSession
  \/ Close
  \/ Return

SessionSpec == SessionInit /\ [][SessionNext]_vars

(* ------------- store calls in flight at the same time ------------------ *)

\* an async method runs until its first await when it is called and from
\* one await to the next each time it is resumed; nothing else runs in
\* between (one thread).  A step of the model is one such stretch.  The
\* embedding provider answers every call here.

Callers == 1 .. MaxCallers

NoCall == [op |-> "none"]

\* the windows of the content an addDocument activation is working on
PartsOf(add) == TextChunker_chunk(add.content)

\* const document = { id, content, metadata, numberOfChunks: chunks.length }
DocumentOfAdd(add) ==
  [id |-> add.id, content |-> add.content, metadata |-> add.metadata,
   numberOfChunks |-> Len(PartsOf(add).chunks)]

\* addDocument at the end of its embedding loop: in memory documents.set and
\* the return; on SQLite the INSERT INTO documents is issued and awaited
AfterEmbedding(be, S, add) ==
  IF be = "memory"
    THEN [store |-> [S EXCEPT !.documents = Append(S.documents, DocumentOfAdd(add))],
          add |-> [add EXCEPT !.pc = "returned"]]
    ELSE [store |-> S, add |-> [add EXCEPT !.pc = "insertDocument"]]

\* addDocument(content, metadata) from the call to its first await
addStart(be, S, id, content, metadata) ==
  LET add == [pc |-> "embedText", id |-> id, content |-> content, metadata |-> metadata,
              i |-> 0, inserted |-> 0]
  IN IF PartsOf(add).chunks = <<>> THEN AfterEmbedding(be, S, add)
     ELSE [store |-> S, add |-> add]

\* addDocument resumed at the await it is suspended in, up to the next one
addResume(be, S, add) ==
  LET parts == PartsOf(add)
      n == Len(parts.chunks)
  IN CASE add.pc = "embedText" ->
            \* this.chunks.push({ chunk, embedding }), then the next window
            LET S1 == [S EXCEPT !.chunks =
                         Append(@, [chunk |-> MakeChunk(add.id, parts, add.i),
                                    embedding |-> embedText(parts.chunks[add.i + 1])])]
                next == [add EXCEPT !.i = add.i + 1]
            IN IF add.i + 1 < n THEN [store |-> S1, add |-> next]
               ELSE AfterEmbedding(be, S1, next)
       [] add.pc = "insertDocument" ->
            \* the document row is written; the chunk inserts follow
            [store |-> [S EXCEPT !.documentRows =
                          Append(@, [id |-> add.id, content |-> add.content,
                                     numberOfChunks |-> n,
                                     metadata |-> JSONStringify(add.metadata)])],
             add |-> [add EXCEPT !.pc = IF n = 0 THEN "returned" ELSE "insertChunk"]]
       [] add.pc = "insertChunk" ->
            \* the row of chunkObjects[inserted] is written
            LET chunk == MakeChunk(add.id, parts, add.inserted)
            IN [store |-> [S EXCEPT !.chunkRows =
                             @ \cup {[documentId |-> add.id, chunkIndex |-> chunk.chunkIndex,
                                      content |-> chunk.content,
                                      rangeStart |-> chunk.range.start,
                                      rangeEnd |-> chunk.range.end]}],
                add |-> [add EXCEPT !.inserted = add.inserted + 1,
                                    !.pc = IF add.inserted + 1 < n THEN "insertChunk"
                                           ELSE "returned"]]

\* a filter that lets no entry through
Kept_nothing(idx, id) == SelectSeq(idx, LAMBDA c : FALSE)

\* this.chunks.filter(item => item.chunk.documentId !== id)
Kept(idx, id) == SelectSeq(idx, LAMBDA c : c.chunk.documentId # id)

\* deleteDocument(id) from the call to its first await: all of it in memory;
\* on SQLite the filter of the index, the DELETE being issued and awaited
deleteStart(be, S, id) ==
  IF be = "memory"
    THEN LET found == getDocument(be, S, id) # Null
         IN [store |-> IF found
                         THEN [S EXCEPT
                                 !.documents = SelectSeq(@, LAMBDA d : d.id # id),
                                 !.chunks = Kept(@, id)]
                         ELSE S,
             pc |-> "returned", deleted |-> found]
    ELSE [store |-> [S EXCEPT !.chunks = Kept(@, id)], pc |-> "delete", deleted |-> FALSE]

\* the DELETE FROM documents WHERE id = ? takes effect; changes > 0
deleteResume(S, id) ==
  [store |-> [S EXCEPT !.documentRows = SelectSeq(@, LAMBDA r : r.id # id),
                       !.chunkRows = IF foreign_keys THEN {r \in @ : r.documentId # id} ELSE @],
   pc |-> "returned", deleted |-> getDocument("sqlite", S, id) # Null]

\* editChunk from the point where it holds the document (at the call in
\* memory, after the awaited getDocument on SQLite) to its next await: the
\* lookups in this.chunks, the replacement, and the call of addDocument
editLookup(be, S, call, newId) ==
  LET document == getDocument(be, S, call.documentId)
      chunkStart == Find(S.chunks, call.documentId, call.chunkIndexStart)
      chunkEnd == Find(S.chunks, call.documentId, call.chunkIndexEnd)
      text == Slice(document.content, chunkStart.chunk.range.start, chunkEnd.chunk.range.end)
      full == fullContent(document, chunkStart, chunkEnd, call.oldContent, call.newContent)
      started == addStart(be, S, newId, full, document.metadata)
      failure(message) ==
        [store |-> S, drew |-> FALSE,
         call |-> [call EXCEPT !.pc = "returned", !.kind = "failure", !.value = message]]
  IN IF document = Null THEN failure(DocumentNotFound)
     ELSE IF chunkStart = Null THEN failure(ChunkStartNotFound)
     ELSE IF chunkEnd = Null THEN failure(ChunkEndNotFound)
     ELSE IF Replace(text, call.oldContent, call.newContent) = text
       THEN failure(ContentIsTheSame)
     ELSE [store |-> started.store, drew |-> TRUE,
           call |-> [call EXCEPT !.pc = "addDocument", !.original = document,
                                 !.add = started.add]]

\* the ids a caller can pass: of the Document stored at the start and of the
\* Documents the calls have returned
KnownIds ==
  {1} \cup {calls[p].value.id : p \in {q \in Callers : /\ calls[q].op \in {"addDocument", "editChunk"}
                                                       /\ calls[q].pc = "returned"
                                                       /\ calls[q].kind = "document"}}

\* crypto.randomUUID(): an id no call has drawn yet
FreshId == Cardinality(issued) + 1

\* contents of the concurrent addDocument calls
ConcurrentContents == {<<"a", "b">>, <<"a", "b", "a", "a", "b", "a">>}

\* the chunk ranges and the spans of the concurrent editChunk calls
ConcurrentEdits ==
  {[chunkIndexStart |-> 0, chunkIndexEnd |-> 0, oldContent |-> <<"a">>, newContent |-> <<"b">>],
   [chunkIndexStart |-> 1, chunkIndexEnd |-> 2, oldContent |-> <<"b">>, newContent |-> <<"a">>]}

\* the store after the one addDocument that came before the concurrent calls
InitialStore(be, content) ==
  addDocument(be, [documents |-> <<>>, documentRows |-> <<>>, chunkRows |-> {}, chunks |-> <<>>],
              1, content, "{source}", NoFail).store

\* a store of either backend holding one Document, no call in flight
ConcurrentInit ==
  /\ backend \in {"memory", "sqlite"}
  /\ \E content \in ConcurrentContents :
       /\ documents = InitialStore(backend, content).documents
       /\ documentRows = InitialStore(backend, content).documentRows
       /\ chunkRows = InitialStore(backend, content).chunkRows
       /\ chunks = InitialStore(backend, content).chunks
  /\ issued = {1}
  /\ deleted = {}
  /\ failures = 0
  /\ result = Idle
  /\ chunker = NoChunker
  /\ mirror = NoMirror
  /\ chat = NoChat
  /\ calls = [p \in Callers |-> NoCall]
  /\ chatLoop = NoChatLoop

\* the call of caller p has returned a Document
ReturnedDocument(call, document) ==
  [call EXCEPT !.pc = "returned", !.kind = "document", !.value = document]

\* docStore.addDocument(content, metadata) is called
CallAddDocument ==
  \E p \in Callers, content \in ConcurrentContents :
    LET started == addStart(backend, Store, FreshId, content, "{source}")
        call == [op |-> "addDocument", pc |-> "addDocument", add |-> started.add,
                 kind |-> "none", value |-> Null]
    IN /\ calls[p] = NoCall
       /\ Install(started.store)
       /\ issued' = issued \cup {FreshId}
       /\ calls' = [calls EXCEPT ![p] = IF started.add.pc = "returned"
                                          THEN ReturnedDocument(call, DocumentOfAdd(started.add))
                                          ELSE call]
       /\ UNCHANGED <<backend, deleted, failures, result, chunker, mirror, chat, chatLoop>>

\* a suspended addDocument call is resumed
ResumeAddDocument ==
  \E p \in Callers :
    /\ calls[p].op = "addDocument"
    /\ calls[p].pc = "addDocument"
    /\ LET r == addResume(backend, Store, calls[p].add)
           call == [calls[p] EXCEPT !.add = r.add]
       IN /\ Install(r.store)
          /\ calls' = [calls EXCEPT ![p] = IF r.add.pc = "returned"
                                             THEN ReturnedDocument(call, DocumentOfAdd(r.add))
                                             ELSE call]
    /\ UNCHANGED <<backend, issued, deleted, failures, result, chunker, mirror, chat, chatLoop>>

\* docStore.deleteDocument(id) is called
CallDeleteDocument ==
  \E p \in Callers, id \in KnownIds :
    LET r == deleteStart(backend, Store, id)
    IN /\ calls[p] = NoCall
       /\ Install(r.store)
       /\ calls' = [calls EXCEPT ![p] = [op |-> "deleteDocument", pc |-> r.pc, id |-> id,
                                         kind |-> "boolean", value |-> r.deleted]]
       /\ UNCHANGED <<backend, issued, deleted, failures, result, chunker, mirror, chat, chatLoop>>

\* the DELETE of a suspended deleteDocument call is done and the call resumed
ResumeDeleteDocument ==
  \E p \in Callers :
    /\ calls[p].op = "deleteDocument"
    /\ calls[p].pc = "delete"
    /\ LET r == deleteResume(Store, calls[p].id)
       IN /\ Install(r.store)
          /\ calls' = [calls EXCEPT ![p].pc = r.pc, ![p].value = r.deleted]
    /\ UNCHANGED <<backend, issued, deleted, failures, result, chunker, mirror, chat, chatLoop>>

\* docStore.editChunk(documentId, chunkIndexStart, chunkIndexEnd, oldContent,
\* newContent) is called
CallEditChunk ==
  \E p \in Callers, documentId \in KnownIds, edit \in ConcurrentEdits :
    LET call == [op |-> "editChunk", pc |-> "getDocument", documentId |-> documentId,
                 chunkIndexStart |-> edit.chunkIndexStart,
                 chunkIndexEnd |-> edit.chunkIndexEnd,
                 oldContent |-> edit.oldContent, newContent |-> edit.newContent,
                 original |-> Null, add |-> Null, kind |-> "none", value |-> Null]
        r == editLookup(backend, Store, call, FreshId)
    IN /\ calls[p] = NoCall
       /\ IF backend = "memory"
            THEN /\ Install(r.store)
                 /\ issued' = IF r.drew THEN issued \cup {FreshId} ELSE issued
                 /\ calls' = [calls EXCEPT ![p] = r.call]
            ELSE \* await this.getDocument(documentId)
                 /\ calls' = [calls EXCEPT ![p] = call]
                 /\ UNCHANGED <<documents, documentRows, chunkRows, chunks, issued>>
       /\ UNCHANGED <<backend, deleted, failures, result, chunker, mirror, chat, chatLoop>>

\* a suspended editChunk call is resumed
ResumeEditChunk ==
  \E p \in Callers :
    /\ calls[p].op = "editChunk"
    /\ calls[p].pc \notin {"returned"}
    /\ CASE calls[p].pc = "getDocument" ->
              LET r == editLookup(backend, Store, calls[p], FreshId)
              IN /\ Install(r.store)
                 /\ issued' = IF r.drew THEN issued \cup {FreshId} ELSE issued
                 /\ calls' = [calls EXCEPT ![p] = r.call]
         [] calls[p].pc = "addDocument" ->
              \* addDocument goes on; when it has returned, editChunk awaits
              \* its promise and calls deleteDocument next
              IF calls[p].add.pc = "returned"
                THEN LET r == deleteStart(backend, Store, calls[p].documentId)
                     IN /\ Install(r.store)
                        /\ calls' = [calls EXCEPT ![p] =
                                       IF r.pc = "returned"
                                         THEN ReturnedDocument(@, DocumentOfAdd(@.add))
                                         ELSE [@ EXCEPT !.pc = "delete"]]
                        /\ UNCHANGED issued
                ELSE LET r == addResume(backend, Store, calls[p].add)
                     IN /\ Install(r.store)
                        /\ calls' = [calls EXCEPT ![p].add = r.add]
                        /\ UNCHANGED issued
         [] calls[p].pc = "delete" ->
              LET r == deleteResume(Store, calls[p].documentId)
              IN /\ Install(r.store)
                 /\ calls' = [calls EXCEPT ![p] = ReturnedDocument(@, DocumentOfAdd(@.add))]
                 /\ UNCHANGED issued
    /\ UNCHANGED <<backend, deleted, failures, result, chunker, mirror, chat, chatLoop>>

ConcurrentNext ==
  \/ CallAddDocument
  \/ ResumeAddDocument
  \/ CallDeleteDocument
  \/ ResumeDeleteDocument
  \/ CallEditChunk
  \/ ResumeEditChunk

ConcurrentSpec == ConcurrentInit /\ [][ConcurrentNext]_vars

(* -------------------------------- C21 --------------------------------- *)

\* the pending call is an addDocument, search or editChunk in which a call of
\* the embedding provider was rejected
ProviderFailed ==
  /\ result.op \in {"addDocument", "search", "editChunk"}
  /\ result.rejectedCall >= 0

\* the caller of the pending call got a thrown error, not a value
Thrown ==
  IF result.op = "editChunk" THEN result.kind = "threw" ELSE result.threw

\* C21: when the embedding provider fails during addDocument, search or
\* editChunk, the rejected call is the last call made to the provider (no
\* retry), and the caller observes a thrown error, not a returned value, on
\* both backends.
C21_ProviderErrorIsThrownNotRetried ==
  ProviderFailed =>
    /\ Len(result.embedTextCalls) = result.rejectedCall + 1
    /\ Thrown

(* -------------------------------- C22 --------------------------------- *)

\* some indexed vector has another length than the query vector of the
\* pending search
LengthsDiffer ==
  \E k \in 1 .. Len(chunks) : Len(chunks[k].embedding) # Len(result.queryEmbedding)

\* C22: on both backends, search fails with an error and returns no ranking
\* whenever the length of the query vector differs from the length of an
\* indexed vector; vectors of different lengths are never scored.
C22_MismatchedLengthsFailTheSearch ==
  (result.op = "searchVectors" /\ LengthsDiffer) =>
    /\ result.threw
    /\ result.value = <<>>

(* -------------------------------- C23 --------------------------------- *)

\* the two answers are the same: both absent or the same Document or Chunk,
\* the same boolean, the same list, the same failure reason
SameAnswer(a, b) ==
  IF result.call = "editChunk"
    THEN a.kind = b.kind /\ (a.kind = "threw" \/ a.value = b.value)
    ELSE a = b

\* C23: for any failure-free sequence of addDocument, getDocument,
\* getAllDocuments, deleteDocument, clearAllDocuments, getChunkByIndex, search
\* (topK given or omitted) and editChunk applied to both backends, with the same
\* ids drawn, the two backends return the same result at every step.
C23_BackendsAnswerAlike ==
  result.op = "both" => SameAnswer(result.memory, result.sqlite)

(* -------------------------------- C24 --------------------------------- *)

\* the places of the index that hold an entry for chunk i of document id
EntriesFor(id, i) ==
  {k \in 1 .. Len(chunks) : chunks[k].chunk.documentId = id /\ chunks[k].chunk.chunkIndex = i}

\* the index a reload builds from the tables as they are, whatever the index
\* held before
Reloaded(idx) ==
  loadStoredDocumentsToVectorStore("sqlite", [Store EXCEPT !.chunks = idx], NoFail).store.chunks

\* C24: on the persistent backend, after loadStoredDocumentsToVectorStore has
\* completed (after a restart or on a populated index) the index holds exactly
\* one entry for each chunk of each stored Document and nothing else, each
\* with the stored window text and range and the embedding of that text; and
\* a further reload, from this index or from the empty one, gives the same
\* index.
C24_ReloadRebuildsTheIndex ==
  (/\ backend = "sqlite"
   /\ result.op = "loadStoredDocumentsToVectorStore"
   /\ ~result.threw)
  => /\ \A d \in StoredDocuments : \A i \in 0 .. d.numberOfChunks - 1 :
          Cardinality(EntriesFor(d.id, i)) = 1
     /\ \A k \in 1 .. Len(chunks) :
          /\ chunks[k].chunk.documentId \in StoredIds
          /\ chunks[k].chunk.chunkIndex \in
               0 .. DocumentOf(chunks[k].chunk.documentId).numberOfChunks - 1
          /\ chunks[k].chunk \in ChunkEntities
          /\ chunks[k].embedding = embedText(chunks[k].chunk.content)
     /\ Reloaded(chunks) = chunks
     /\ Reloaded(<<>>) = chunks

(* -------------------------------- C25 --------------------------------- *)

\* the call whose result is pending was an editChunk one of whose steps (an
\* embedding, an insert, the delete) failed
EditFailed == EditReturned /\ failures' # failures

\* C25: if editChunk fails at any step, the original Document is still
\* retrievable with unchanged content, its chunks are still in the index, and
\* the Documents of the store are those of before, with at most the new
\* Document added.
C25_FailedEditKeepsTheOriginal ==
  [][EditFailed =>
       LET id == result'.documentId
       IN /\ DocumentOf(id) \in StoredDocuments'
          /\ \A c \in IndexedChunks : c.documentId = id => c \in IndexedChunks'
          /\ StoredDocuments \subseteq StoredDocuments'
          /\ Cardinality(StoredDocuments' \ StoredDocuments) <= 1
          /\ \A d \in StoredDocuments' \ StoredDocuments : d.id \notin issued]_vars

(* -------------------------------- C26 --------------------------------- *)

\* the call whose result is pending was deleteDocument, issued in the state
\* before
DeleteReturned == result = Idle /\ result'.op = "deleteDocument"

\* the index entries of the documents other than id, in index order
EntriesOfOthers(idx, id) == SelectSeq(idx, LAMBDA c : c.chunk.documentId # id)

\* C26: deleteDocument(id) is all or nothing on both backends. When it
\* returns true a Document with that id existed and the Document, all its
\* chunks and all its index entries are gone, those of the other documents
\* kept; when it returns false nothing was removed; and when no statement
\* failed it returns true exactly if the Document existed.
C26_DeleteIsAllOrNothing ==
  [][DeleteReturned =>
       LET id == result'.id
       IN /\ result'.value =>
               /\ id \in StoredIds
               /\ StoredDocuments' = {d \in StoredDocuments : d.id # id}
               /\ ChunkEntities' = {c \in ChunkEntities : c.documentId # id}
               /\ chunks' = EntriesOfOthers(chunks, id)
          /\ ~result'.value => UNCHANGED <<chatLoop, calls, documents, documentRows, chunkRows, chunks>>
          /\ failures' = failures => (result'.value <=> id \in StoredIds)]_vars

(* -------------------------------- C29 --------------------------------- *)

\* the pending call is a render of two requests on one stored Document, each
\* with 0 <= start <= end and start an index of the Document
TwoRequestsOnOneDocument ==
  /\ result.op = "render"
  /\ Len(result.requests) = 2
  /\ result.requests[1].documentId = result.requests[2].documentId
  /\ result.requests[1].documentId \in StoredIds
  /\ \A k \in 1 .. 2 :
       /\ 0 <= result.requests[k].start
       /\ result.requests[k].start <= result.requests[k].end
       /\ result.requests[k].start < DocumentOf(result.requests[k].documentId).numberOfChunks

\* C29: in render, two requests on the same document are merged into one
\* shown unit, from the smaller start to the larger (clipped) end, when the
\* second starts at most one index after the first ends, in whatever order
\* they are given; otherwise they give two shown units with an omitted unit
\* for the indices between them; every end is clipped to numberOfChunks - 1
\* and no omitted unit is empty.
C29_RequestsMergeWhenAdjacent ==
  TwoRequestsOnOneDocument =>
    LET id == result.requests[1].documentId
        n == DocumentOf(id).numberOfChunks
        first == IF result.requests[1].start <= result.requests[2].start THEN 1 ELSE 2
        a == result.requests[first]
        b == result.requests[3 - first]
        endA == Min(a.end, n - 1)
        endB == Min(b.end, n - 1)
        units == Shapes(UnitsOf(result.parts, id))
        shown == Shapes(ShownOf(result.parts, id))
    IN /\ ~result.threw
       /\ b.start <= endA + 1 => shown = <<<<"shown", a.start, Max(endA, endB)>>>>
       /\ b.start > endA + 1 =>
            /\ shown = <<<<"shown", a.start, endA>>, <<"shown", b.start, endB>>>>
            /\ \E k \in 1 .. Len(units) - 2 :
                 /\ units[k] = <<"shown", a.start, endA>>
                 /\ units[k + 1] = <<"omitted", endA + 1, b.start - 1>>
                 /\ units[k + 2] = <<"shown", b.start, endB>>
       /\ \A k \in 1 .. Len(units) : units[k][2] <= units[k][3]

(* -------------------------------- C30 --------------------------------- *)

\* a call of chunk(text) with 0 <= chunkOverlap < chunkSize on a text longer
\* than chunkSize has returned
LongTextChunked ==
  /\ chunker.pc = "done"
  /\ chunker.chunkOverlap < chunker.chunkSize
  /\ Len(chunker.text) > chunker.chunkSize

\* C30: for 0 <= chunkOverlap < chunkSize and a text longer than chunkSize,
\* the boundaries are end_0 = chunkSize and end_{i+1} = min(end_i -
\* chunkOverlap + chunkSize, len(text)), the last one, and only the last, being
\* len(text); window 0 is text[0 : end_0] and window i > 0 is text[end_{i-1} -
\* chunkOverlap : end_i]; the range addDocument gives chunk i is [end_{i-1},
\* end_i) (from 0 for i = 0), so window i > 0 starts chunkOverlap characters
\* before its range.
C30_BoundariesWindowsAndRanges ==
  LongTextChunked =>
    LET ends == chunker.ends
        n == Len(ends)
        text == chunker.text
    IN /\ Len(chunker.chunks) = n
       /\ ends[1] = chunker.chunkSize
       /\ \A i \in 1 .. n - 1 :
            /\ ends[i + 1] = Min(ends[i] - chunker.chunkOverlap + chunker.chunkSize, Len(text))
            /\ ends[i] < Len(text)
       /\ ends[n] = Len(text)
       /\ chunker.chunks[1] = Characters(text, 0, ends[1])
       /\ \A i \in 1 .. n - 1 :
            chunker.chunks[i + 1] = Characters(text, ends[i] - chunker.chunkOverlap, ends[i + 1])
       /\ MakeChunk(1, chunker, 0).range = [start |-> 0, end |-> ends[1]]
       /\ \A i \in 1 .. n - 1 :
            /\ MakeChunk(1, chunker, i).range = [start |-> ends[i], end |-> ends[i + 1]]
            /\ MakeChunk(1, chunker, i).content[1]
                 = text[MakeChunk(1, chunker, i).range.start - chunker.chunkOverlap + 1]

\* reached: a text cut into at least three windows that overlap, the last
\* one shorter than chunkSize, where a window is not the slice of its range
C30_Witness ==
  /\ LongTextChunked
  /\ chunker.chunkOverlap >= 2
  /\ Len(chunker.ends) >= 3
  /\ Len(chunker.chunks[Len(chunker.chunks)]) < chunker.chunkSize
  /\ chunker.chunks[2]
       # Characters(chunker.text, MakeChunk(1, chunker, 1).range.start,
                    MakeChunk(1, chunker, 1).range.end)

(* -------------------------------- C27 --------------------------------- *)

\* the one answer loadSession may give: the state with these messages
Loaded(messages) == {[kind |-> "state", messages |-> messages, previousResponseId |-> Null]}

\* the one answer loadSession may give for an id that has no session
NotFound == {[kind |-> "null"]}

\* a saveSession call has resolved
SaveResolved == result.op = "saveSession" /\ result.settled = "resolved"

\* the step is a saveSession or a deleteSession call on this session id
CallOn(sessionId) ==
  /\ result'.op \in {"saveSession", "deleteSession"}
  /\ result'.sessionId = sessionId

\* the step is a saveSession call on this session id
SaveOn(sessionId) == result'.op = "saveSession" /\ result'.sessionId = sessionId

\* C27: after saveSession(id, state) has resolved, loadSession(id) returns
\* the messages of state in their order, each with its role and its content,
\* functionName, arguments, id and timestamp, and previousResponseId null,
\* whatever was stored under the id before, and goes on returning them until
\* the next saveSession or deleteSession of that id; after deleteSession(id),
\* loadSession(id) returns null, and an id for which it returns null, never
\* saved or deleted, goes on returning null until a saveSession of that id.
C27_SaveThenLoadRoundTrip ==
  /\ [](SaveResolved => loadSession(chat, result.sessionId) = Loaded(result.state.messages))
  /\ [](result.op = "deleteSession" => loadSession(chat, result.sessionId) = NotFound)
  /\ [][\A sessionId \in SessionIds :
          ~chat.transaction.open =>
            CallOn(sessionId) \/ loadSession(chat', sessionId) = loadSession(chat, sessionId)]_vars
  /\ [][\A sessionId \in SessionIds :
          loadSession(chat, sessionId) = NotFound =>
            SaveOn(sessionId) \/ loadSession(chat', sessionId) = NotFound]_vars

(* -------------------------------- C28 --------------------------------- *)

\* the step is a saveSession call one statement of which fails
SaveFailed == result'.op = "saveSession" /\ result'.fault.at # "none"

\* a saveSession call none of whose statements fails has returned
SaveUnhindered == result.op = "saveSession" /\ result.fault.at = "none"

\* C28: when the session upsert, the delete of the old messages or one
\* message insert of saveSession fails, the promise is rejected, the rows of
\* chat_sessions and chat_messages are what they were before the call, no
\* transaction is left open and no error goes unhandled; and a saveSession
\* whose statements all succeed resolves, whatever calls came before it.
C28_SaveSessionIsAtomic ==
  /\ [][SaveFailed =>
          /\ result'.settled = "rejected"
          /\ ~result'.unhandled
          /\ ~chat'.transaction.open
          /\ Tables(chat') = Tables(chat)]_vars
  /\ [](SaveUnhindered => result.settled = "resolved" /\ ~result.unhandled)

(* -------------------------------- C31 --------------------------------- *)

\* the vector has zero magnitude
ZeroMagnitude(v) == \A i \in 1 .. Len(v) : v[i] = 0

\* the indexed vector of a ranked chunk
VectorOf(chunk) == chunks[chunk.chunkIndex + 1].embedding

\* C31: on both backends, a ranking returned by search gives similarity 0 to
\* every chunk when the query vector has zero magnitude and to every chunk
\* whose own vector has zero magnitude, and no similarity in it is NaN.
C31_ZeroMagnitudeScoresZero ==
  (result.op = "searchVectors" /\ ~result.threw) =>
    \A k \in 1 .. Len(result.value) :
      /\ ~IsNaN(result.value[k].similarity)
      /\ (ZeroMagnitude(result.queryEmbedding) \/ ZeroMagnitude(VectorOf(result.value[k].chunk)))
           => result.value[k].similarity = Zero

(* -------------------------------- C32 --------------------------------- *)

\* the persistent store has been reloaded: loadStoredDocumentsToVectorStore
\* has completed on the tables as the calls before it left them, a call cut
\* short at one of its statements among them
ReloadCompleted ==
  /\ backend = "sqlite"
  /\ result.op = "loadStoredDocumentsToVectorStore"
  /\ ~result.threw

\* C32: on the persistent backend, when an addDocument or an editChunk was cut
\* short at any of its steps (an embedding, the document insert, a chunk
\* insert, the delete of the old document), then after a restart and a
\* completed loadStoredDocumentsToVectorStore every stored Document has
\* exactly numberOfChunks chunk rows, which partition its content, and one
\* index entry for each, and no chunk row and no index entry is without its
\* Document.
C32_ReloadAfterACrashIsConsistent ==
  ReloadCompleted =>
    /\ \A d \in StoredDocuments :
         /\ Cardinality(ChunksOfDocument(d.id)) = d.numberOfChunks
         /\ Partitioned(d)
         /\ \A i \in 0 .. d.numberOfChunks - 1 : Cardinality(EntriesFor(d.id, i)) = 1
    /\ \A r \in chunkRows : r.documentId \in StoredIds
    /\ \A c \in IndexedChunks : c.documentId \in StoredIds

(* -------------------------------- C33 --------------------------------- *)

\* the call has returned
Returned(call) == call.op # "none" /\ call.pc = "returned"

\* the editChunk call has returned a successor Document
ReturnedSuccessor(call) == call.op = "editChunk" /\ Returned(call) /\ call.kind = "document"

\* C33: calls on the same Document take effect one after the other: of two
\* editChunk calls made on the same id at most one returns a successor
\* Document (the other finds the original gone), so no two successors exist
\* that each lack the other's edit; and of an editChunk and a deleteDocument
\* on the same id, the edit returns no successor when the delete returned
\* true.
C33_CallsOnOneDocumentAreSerialized ==
  \A p, q \in Callers :
    /\ (/\ p # q
        /\ ReturnedSuccessor(calls[p])
        /\ ReturnedSuccessor(calls[q]))
       => calls[p].documentId # calls[q].documentId
    /\ (/\ ReturnedSuccessor(calls[p])
        /\ calls[q].op = "deleteDocument"
        /\ Returned(calls[q])
        /\ calls[q].id = calls[p].documentId)
       => ~calls[q].value

(* -------------------------------- C34 --------------------------------- *)

\* the addDocument activations of the calls, those of editChunk among them
Activations ==
  {calls[p].add : p \in {q \in Callers : /\ calls[q].op \in {"addDocument", "editChunk"}
                                          /\ calls[q].add # Null}}

\* some call, made or returned, deletes or edits the Document of this id
Targeted(id) ==
  \E p \in Callers :
    \/ calls[p].op = "deleteDocument" /\ calls[p].id = id
    \/ calls[p].op = "editChunk" /\ calls[p].documentId = id

\* the index holds the windows 0 .. add.i - 1 of the activation, once each, as
\* the partitioner numbered and cut them, and no other entry of its id
IndexedInOrder(add) ==
  /\ \A k \in 1 .. Len(chunks) :
       chunks[k].chunk.documentId = add.id => chunks[k].chunk.chunkIndex \in 0 .. add.i - 1
  /\ \A i \in 0 .. add.i - 1 :
       /\ Cardinality(EntriesFor(add.id, i)) = 1
       /\ \A k \in EntriesFor(add.id, i) :
            /\ chunks[k].chunk = MakeChunk(add.id, PartsOf(add), i)
            /\ chunks[k].embedding = embedText(PartsOf(add).chunks[i + 1])

\* C34: when addDocument calls run at the same time as each other and as
\* calls on other Documents, every window an addDocument has embedded is in
\* the index exactly once, with the chunkIndex and the range of its place in
\* the partition, whatever delete of another Document ran meanwhile; and the
\* Document a call has returned is stored with chunks 0 .. numberOfChunks - 1
\* that partition its content.
C34_ConcurrentAddsKeepTheirChunks ==
  /\ \A add \in Activations : ~Targeted(add.id) => IndexedInOrder(add)
  /\ \A p \in Callers :
       (/\ calls[p].op = "addDocument"
        /\ Returned(calls[p])
        /\ ~Targeted(calls[p].value.id))
       => /\ calls[p].value \in StoredDocuments
          /\ calls[p].add.i = calls[p].value.numberOfChunks
          /\ ChunksMatchTheCount(calls[p].value)
          /\ Partitioned(calls[p].value)

\* reached: two addDocument calls that ran at the same time have returned,
\* the index entries of the one lying between those of the other
C34_Witness ==
  \E p, q \in Callers :
    /\ p # q
    /\ calls[p].op = "addDocument" /\ Returned(calls[p])
    /\ calls[q].op = "addDocument" /\ Returned(calls[q])
    /\ \E j, k, l \in 1 .. Len(chunks) :
         /\ j < k /\ k < l
         /\ chunks[j].chunk.documentId = calls[p].value.id
         /\ chunks[k].chunk.documentId = calls[q].value.id
         /\ chunks[l].chunk.documentId = calls[p].value.id

(* -------------------------------- C35 --------------------------------- *)

\* the part of text before its first occurrence of oldSpan
PrefixOf(text, oldSpan) ==
  LET p == CHOOSE q \in 0 .. Len(text) :
             OccursAt(text, oldSpan, q) /\ \A r \in 0 .. q - 1 : ~OccursAt(text, oldSpan, r)
  IN Characters(text, 0, p)

\* the part of text after its first occurrence of oldSpan
SuffixOf(text, oldSpan) ==
  Characters(text, Len(PrefixOf(text, oldSpan)) + Len(oldSpan), Len(text))

\* C35: editChunk inserts newSpan literally: whatever newSpan is, "$&" and "$$"
\* included, the Document an editChunk on chunks s <= e returns has the targeted
\* span replaced by prefix + newSpan + suffix, prefix and suffix being the parts
\* of the span before and after the first occurrence of oldSpan.
C35_NewSpanIsInsertedLiterally ==
  [][(/\ EditReturned
      /\ result'.kind = "document"
      /\ result'.chunkIndexStart <= result'.chunkIndexEnd)
     => LET id == result'.documentId
            span == SpanOf(id, result'.chunkIndexStart, result'.chunkIndexEnd)
            content == DocumentOf(id).content
        IN /\ Occurs(span, result'.oldContent)
           /\ result'.value.content =
                Characters(content, 0, SpanStart(id, result'.chunkIndexStart))
                \o PrefixOf(span, result'.oldContent)
                \o result'.newContent
                \o SuffixOf(span, result'.oldContent)
                \o Characters(content, SpanEnd(id, result'.chunkIndexEnd), Len(content))]_vars

(* ------------------ editChunk on every pair of chunks ------------------ *)

\* the longest content an edit may produce here, and the number of edits in a row
MaxEditedLen == 10

MaxEdits == 2

\* contents of the Document the edits start from: three windows, one window
EditedContents == {<<"a", "b", "a", "a", "b", "a">>, <<"a", "$", "$">>}

\* oldContent of the edits: the empty string beside those of OldContents
EditedOldContents == OldContents \cup {<<>>}

\* a store of either backend holding one Document
EditInit ==
  /\ backend \in {"memory", "sqlite"}
  /\ \E content \in EditedContents :
       /\ documents = InitialStore(backend, content).documents
       /\ documentRows = InitialStore(backend, content).documentRows
       /\ chunkRows = InitialStore(backend, content).chunkRows
       /\ chunks = InitialStore(backend, content).chunks
  /\ issued = {1}
  /\ deleted = {}
  /\ failures = 0
  /\ result = Idle
  /\ chunker = NoChunker
  /\ mirror = NoMirror
  /\ chat = NoChat
  /\ calls = NoCalls
  /\ chatLoop = NoChatLoop

\* editChunk with any two chunk indices, in either order, the provider and the
\* database answering every call
EditSpan ==
  /\ result = Idle
  /\ \E documentId \in issued, chunkIndexStart \in ChunkIndexes, chunkIndexEnd \in ChunkIndexes,
        oldContent \in EditedOldContents, newContent \in NewContents :
       LET r == editChunk(backend, Store, documentId, chunkIndexStart, chunkIndexEnd,
                          oldContent, newContent, FreshId, NoFail)
       IN /\ r.added => Cardinality(issued) <= MaxEdits /\ Len(r.value.content) <= MaxEditedLen
          /\ Install(r.store)
          /\ issued' = IF r.added THEN issued \cup {FreshId} ELSE issued
          /\ deleted' = IF r.deletedOld THEN deleted \cup {documentId} ELSE deleted
          /\ result' = [op |-> "editChunk", documentId |-> documentId,
                        chunkIndexStart |-> chunkIndexStart,
                        chunkIndexEnd |-> chunkIndexEnd,
                        oldContent |-> oldContent, newContent |-> newContent,
                        kind |-> r.kind, value |-> r.value,
                        embedTextCalls |-> IF r.added THEN embedTextCalls(r.value.content, NoFail)
                                                      ELSE <<>>,
                        rejectedCall |-> 0 - 1]
          /\ UNCHANGED <<chatLoop, calls, chunker, mirror, chat, backend, failures>>

EditNext == EditSpan \/ Return

EditSpec == EditInit /\ [][EditNext]_vars

(* -------------------------------- C36 --------------------------------- *)

\* edited is original with one occurrence of oldSpan taken out and a text as
\* long as newSpan put in its place, everything else once and in order
OneOccurrenceReplaced(original, edited, oldSpan, newSpan) ==
  /\ Len(edited) = Len(original) - Len(oldSpan) + Len(newSpan)
  /\ \E p \in 0 .. Len(original) :
       /\ OccursAt(original, oldSpan, p)
       /\ Characters(edited, 0, p) = Characters(original, 0, p)
       /\ Characters(edited, p + Len(newSpan), Len(edited))
            = Characters(original, p + Len(oldSpan), Len(original))

\* C36: for every pair of existing chunk indices of a Document, startIndex >
\* endIndex included, and every oldSpan, the empty one included, editChunk
\* either returns a failure or produces a content of length |original| -
\* |oldSpan| + |newSpan| that keeps every character of the original outside the
\* replaced occurrence exactly once and in order.
C36_EditNeitherDuplicatesNorDrops ==
  [][(/\ EditReturned
      /\ result'.documentId \in StoredIds
      /\ Indexed(result'.documentId, result'.chunkIndexStart)
      /\ Indexed(result'.documentId, result'.chunkIndexEnd))
     => \/ result'.kind = "failure"
        \/ /\ result'.kind = "document"
           /\ OneOccurrenceReplaced(DocumentOf(result'.documentId).content,
                                    result'.value.content,
                                    result'.oldContent, result'.newContent)]_vars

(* -------------------------------- C37 --------------------------------- *)

\* what editChunk finds for chunk i of document id: an entry of this.chunks
EditChunkFinds(id, i) == Find(chunks, id, i)

\* what getChunkByIndex finds for it: a row of the chunks table
GetChunkFinds(id, i) == getChunkByIndex("sqlite", Store, id, i)

\* C37: on the persistent backend, in every reachable state, after a restart
\* before loadStoredDocumentsToVectorStore and after a failed operation too,
\* editChunk reports a chunk of a stored Document as not found exactly when
\* getChunkByIndex returns absent for it, and both use the same range.
C37_EditAndGetChunkAgree ==
  backend = "sqlite" =>
    \A id \in StoredIds, i \in ChunkIndexes :
      /\ EditChunkFinds(id, i) = Null <=> GetChunkFinds(id, i) = Null
      /\ EditChunkFinds(id, i) # Null =>
           EditChunkFinds(id, i).chunk.range = GetChunkFinds(id, i).range

(* -------------------------------- C38 --------------------------------- *)

\* the (documentId, chunkIndex) pairs the stored Documents call for
ChunkPairsOfDocuments ==
  UNION {{<<d.id, i>> : i \in 0 .. d.numberOfChunks - 1} : d \in StoredDocuments}

\* the index holds exactly one entry per chunk of each stored Document
IndexIsExact ==
  /\ {<<c.documentId, c.chunkIndex>> : c \in IndexedChunks} = ChunkPairsOfDocuments
  /\ \A j, k \in 1 .. Len(chunks) :
       (/\ chunks[j].chunk.documentId = chunks[k].chunk.documentId
        /\ chunks[j].chunk.chunkIndex = chunks[k].chunk.chunkIndex) => j = k

\* a store operation has completed, and no call of the run has failed so far
CompletedUnfailing == result = Idle /\ result'.op # "restart" /\ failures' = 0

\* C38: between completed, non-failing operations the index holds exactly one
\* entry per chunk of each stored Document, no pair twice and none of a deleted
\* or never-stored Document: every such operation keeps this, and the reload
\* of the index after a restart establishes it again; after clearAllDocuments
\* the index, the Documents and the durable chunk rows are all empty.
C38_IndexHoldsOneEntryPerChunk ==
  /\ [][CompletedUnfailing /\ IndexIsExact => IndexIsExact']_vars
  /\ [][CompletedUnfailing /\ result'.op = "loadStoredDocumentsToVectorStore"
        => IndexIsExact']_vars
  /\ [](result.op = "clearAllDocuments" /\ ~result.threw
        => chunks = <<>> /\ StoredDocuments = {} /\ chunkRows = {})

(* ------------------- the chat loop of processChat ---------------------- *)

\* the LLM requests of a run
MaxRequests == 3

\* export const toolName of tools/knowledge.ts
toolName == "knowledge_base"

\* the names a function_call of the model may carry: the tool, a name no tool
\* has, and a name every JavaScript object inherits from Object.prototype
FunctionNames == {toolName, "unknown_tool", "toString"}

CallIds == {"call_1", "call_2"}

\* tools[functionName] on the object literal { [toolName]: executor }: the own
\* property, a function inherited from Object.prototype, or undefined
toolOf(functionName) ==
  IF functionName = toolName THEN [kind |-> "executor"]
  ELSE IF functionName = "toString" THEN [kind |-> "inherited"]
  ELSE Undefined

\* what the awaited tool(args) does: the executor of the knowledge tool returns
\* a text or throws; Object.prototype.toString called without a receiver
\* returns "[object Undefined]"
ToolSettles(tool) ==
  IF tool.kind = "executor"
    THEN {[threw |-> FALSE, value |-> "found"], [threw |-> TRUE, value |-> ""]}
    ELSE {[threw |-> FALSE, value |-> "[object Undefined]"]}

\* the items of response.output
OutputText == [type |-> "message", content |-> <<[type |-> "output_text", text |-> "answer"]>>]

Refusal == [type |-> "message", content |-> <<[type |-> "refusal"]>>]

WebSearchCall == [type |-> "web_search_call"]

Reasoning == [type |-> "reasoning"]

FunctionCall(id, name) ==
  [type |-> "function_call", call_id |-> id, name |-> name, arguments |-> "{}"]

\* the outputs of a response: the request sets parallel_tool_calls: false, so
\* there is one function call at most, and the model stops at it to wait for
\* the function's output
Outputs ==
  {<<OutputText>>, <<WebSearchCall, OutputText>>, <<Refusal>>, <<Reasoning>>}
    \cup {<<FunctionCall(id, name)>> : id \in CallIds, name \in FunctionNames}
    \cup {<<OutputText, FunctionCall(id, name)>> : id \in CallIds, name \in FunctionNames}

\* state.messages.at(-1)
lastMessageOf(state) ==
  IF state.messages = <<>> THEN Undefined ELSE state.messages[Len(state.messages)]

addMessage(state, message) == [state EXCEPT !.messages = Append(@, message)]

addUserMessage(state, content, now) ==
  addMessage(state, [role |-> "user", content |-> content, timestamp |-> now])

\* the input of openai.responses.create
inputOf(state) ==
  LET lastMessage == lastMessageOf(state)
  IN IF lastMessage = Undefined THEN Undefined
     ELSE IF lastMessage.role = "user" THEN lastMessage.content
     ELSE IF lastMessage.role = "toolResponse"
       THEN <<[type |-> "function_call_output", call_id |-> lastMessage.id,
               output |-> lastMessage.content]>>
     ELSE Undefined

\* the request processLlm sends
requestOf(state) ==
  [input |-> inputOf(state), previous_response_id |-> state.previousResponseId]

\* for (const content of output.content)
RECURSIVE pushContents(_, _, _)
pushContents(messages, content, now) ==
  IF content = <<>> THEN [threw |-> FALSE, messages |-> messages]
  ELSE IF Head(content).type = "output_text"
    THEN pushContents(Append(messages, [role |-> "ai", content |-> Head(content).text,
                                        timestamp |-> now]),
                      Tail(content), now)
  ELSE [threw |-> TRUE, messages |-> messages]

\* for (const output of response.output)
RECURSIVE pushOutputs(_, _, _)
pushOutputs(messages, output, now) ==
  IF output = <<>> THEN [threw |-> FALSE, messages |-> messages]
  ELSE IF Head(output).type = "message"
    THEN LET pushed == pushContents(messages, Head(output).content, now)
         IN IF pushed.threw THEN pushed ELSE pushOutputs(pushed.messages, Tail(output), now)
  ELSE IF Head(output).type = "function_call"
    THEN pushOutputs(Append(messages, [role |-> "toolCall", id |-> Head(output).call_id,
                                       functionName |-> Head(output).name,
                                       arguments |-> Head(output).arguments,
                                       timestamp |-> now]),
                     Tail(output), now)
  ELSE IF Head(output).type = "web_search_call"
    THEN pushOutputs(Append(messages, [role |-> "webSearchCall", timestamp |-> now]),
                     Tail(output), now)
  ELSE [threw |-> TRUE, messages |-> messages]

\* processLlm from the arrival of the response on
processLlm(state, response, now) ==
  LET pushed == pushOutputs(state.messages, response.output, now)
  IN IF pushed.threw THEN [threw |-> TRUE, state |-> state]
     ELSE [threw |-> FALSE,
           state |-> [messages |-> pushed.messages,
                      previousResponseId |-> NotNull(response.id)]]

\* the responseMessage of processTool
responseMessage(lastMessage, toolResult, now) ==
  [role |-> "toolResponse", id |-> lastMessage.id, content |-> toolResult, timestamp |-> now]

\* processTool awaits tool(args): the last message is a toolCall and
\* tools[functionName] is not undefined
processToolAwaits(state) ==
  /\ lastMessageOf(state) # Undefined
  /\ lastMessageOf(state).role = "toolCall"
  /\ toolOf(lastMessageOf(state).functionName) # Undefined

\* processTool: null, the error thrown, or the state with the response added;
\* settled is what the awaited tool(args) did
processTool(state, settled, now) ==
  LET lastMessage == lastMessageOf(state)
  IN IF lastMessage = Undefined THEN [kind |-> "null", given |-> state, state |-> state]
     ELSE IF lastMessage.role # "toolCall"
       THEN [kind |-> "null", given |-> state, state |-> state]
     ELSE IF toolOf(lastMessage.functionName) = Undefined
       THEN [kind |-> "threw", given |-> state, state |-> state]
     ELSE IF settled.threw THEN [kind |-> "threw", given |-> state, state |-> state]
     ELSE [kind |-> "state", given |-> state,
           state |-> addMessage(state, responseMessage(lastMessage, settled.value, now))]

\* processTool has not been called in this processChat
NotCalled == [kind |-> "none"]

NewChat == [messages |-> <<>>, previousResponseId |-> Null]

\* a new chat, no query being processed
ChatLoopInit ==
  /\ backend = "memory"
  /\ documents = <<>>
  /\ documentRows = <<>>
  /\ chunkRows = {}
  /\ chunks = <<>>
  /\ issued = {}
  /\ deleted = {}
  /\ failures = 0
  /\ result = Idle
  /\ chunker = NoChunker
  /\ mirror = NoMirror
  /\ chat = NoChat
  /\ calls = NoCalls
  /\ chatLoop = [pc |-> "idle", state |-> NewChat, local |-> NewChat, requests |-> 0,
                 now |-> 0, request |-> Undefined, tool |-> NotCalled]

StoreUntouched ==
  UNCHANGED <<backend, documents, documentRows, chunkRows, chunks, issued, deleted, failures,
              result, chunker, mirror, chat, calls>>

\* processChat up to the await of its first processLlm
ProcessChat ==
  /\ chatLoop.pc = "idle"
  /\ chatLoop.requests < MaxRequests
  /\ LET state == addUserMessage(chatLoop.state, "question", chatLoop.now)
     IN chatLoop' = [chatLoop EXCEPT !.pc = "processLlm", !.local = state,
                                     !.request = requestOf(state),
                                     !.requests = @ + 1, !.now = @ + 1, !.tool = NotCalled]
  /\ StoreUntouched

\* the response arrives: the rest of processLlm, then processTool up to its
\* await, or through to its return or throw
LlmAnswers ==
  /\ chatLoop.pc = "processLlm"
  /\ \E output \in Outputs :
       LET llm == processLlm(chatLoop.local, [id |-> chatLoop.requests, output |-> output],
                             chatLoop.now)
       IN chatLoop' =
            IF llm.threw THEN [chatLoop EXCEPT !.pc = "threw", !.now = @ + 1]
            ELSE IF processToolAwaits(llm.state)
              THEN [chatLoop EXCEPT !.pc = "tool", !.local = llm.state, !.now = @ + 1]
            ELSE LET done == processTool(llm.state, [threw |-> FALSE, value |-> ""],
                                         chatLoop.now)
                 IN [chatLoop EXCEPT !.pc = IF done.kind = "null" THEN "returned" ELSE "threw",
                                     !.local = llm.state, !.tool = done, !.now = @ + 1]
  /\ StoreUntouched

\* openai.responses.create rejects
LlmRejects ==
  /\ chatLoop.pc = "processLlm"
  /\ chatLoop' = [chatLoop EXCEPT !.pc = "threw"]
  /\ StoreUntouched

\* tool(args) settles: the rest of processTool, and on a new state the
\* processLlm of the loop up to its await
ToolSettled ==
  /\ chatLoop.pc = "tool"
  /\ \E settled \in ToolSettles(toolOf(lastMessageOf(chatLoop.local).functionName)) :
       LET done == processTool(chatLoop.local, settled, chatLoop.now)
       IN /\ done.kind = "state" => chatLoop.requests < MaxRequests
          /\ chatLoop' =
               IF done.kind = "threw" THEN [chatLoop EXCEPT !.pc = "threw", !.tool = done]
               ELSE [chatLoop EXCEPT !.pc = "processLlm", !.local = done.state,
                                     !.tool = done, !.request = requestOf(done.state),
                                     !.requests = @ + 1, !.now = @ + 1]
  /\ StoreUntouched

\* the caller of processChat: the returned state becomes the chat state, an
\* error is logged and the chat state kept
ChatSettled ==
  /\ chatLoop.pc \in {"returned", "threw"}
  /\ chatLoop' = [chatLoop EXCEPT !.pc = "idle",
                                  !.state = IF chatLoop.pc = "returned" THEN chatLoop.local
                                            ELSE @]
  /\ StoreUntouched

ChatLoopNext == ProcessChat \/ LlmAnswers \/ LlmRejects \/ ToolSettled \/ ChatSettled

ChatLoopSpec == ChatLoopInit /\ [][ChatLoopNext]_vars

(* -------------------------------- C39 --------------------------------- *)

\* every toolCall of messages has one toolResponse right after it, with its id
EveryCallAnswered(messages) ==
  \A k \in 1 .. Len(messages) :
    messages[k].role = "toolCall" =>
      /\ k < Len(messages)
      /\ messages[k + 1].role = "toolResponse"
      /\ messages[k + 1].id = messages[k].id
      /\ k + 2 <= Len(messages) => messages[k + 2].role # "toolResponse"

\* the function the last message asks for is no tool
UnknownFunction(state) ==
  /\ lastMessageOf(state) # Undefined
  /\ lastMessageOf(state).role = "toolCall"
  /\ lastMessageOf(state).functionName # toolName

\* C39: in the chat loop every toolCall of the history is followed at once by
\* exactly one toolResponse with its id before the next LLM request is issued;
\* processTool returns null exactly when the last message is no toolCall; and
\* when the executor throws or the function name is unknown, processTool
\* throws and the chat state is not extended.
C39_ToolCallsAreAnsweredInTheLoop ==
  /\ [](chatLoop.pc = "processLlm" => EveryCallAnswered(chatLoop.local.messages))
  /\ [](chatLoop.tool # NotCalled =>
          (chatLoop.tool.kind = "null" <=>
             \/ lastMessageOf(chatLoop.tool.given) = Undefined
             \/ lastMessageOf(chatLoop.tool.given).role # "toolCall"))
  /\ [](chatLoop.tool # NotCalled /\ UnknownFunction(chatLoop.tool.given) =>
          chatLoop.tool.kind = "threw")
  /\ [](chatLoop.tool.kind = "threw" =>
          /\ chatLoop.tool.state = chatLoop.tool.given
          /\ chatLoop.local = chatLoop.tool.given
          /\ chatLoop.pc \in {"threw", "idle"})
  /\ [][chatLoop.pc = "tool" /\ chatLoop'.pc = "threw" => chatLoop'.tool.kind = "threw"]_vars
  /\ [][chatLoop.pc = "threw" => chatLoop'.state = chatLoop.state]_vars

====
